---- MODULE Spec2Model ----
(***************************************************************************)
(* Harris-matrix layout engine of src/utils/graphLayout.ts:                *)
(* calculateLayout (adjacency building, transitive reduction, ranking,     *)
(* side assignment, coordinates, links) and calculateRoutes (orthogonal    *)
(* polylines).  Unit ids are sequences of one-character strings, so that   *)
(* the id parsing of getLayerSortValue and the id comparison of            *)
(* localeCompare are computed and not looked up.                           *)
(***************************************************************************)
EXTENDS Integers, Sequences, FiniteSets, TLC

VARIABLES
  pc,          \* position of the caller: "input", "layout", "routed"; "rank*" inside calcRank
  units,       \* calculateLayout argument: ArchaeologicalUnit[]
  relations,   \* calculateLayout argument: StratigraphicRelation[]
  rawAdj,      \* rawAdj map: unit id -> children in insertion order
  adj,         \* reduced adjacency returned by performTransitiveReduction
  nodes,       \* nodeMap values in insertion order: GraphNode[]
  links,       \* graphLinks: GraphLink[]
  layers,      \* maxRank + 1
  customOffsets, \* calculateRoutes argument: link id -> number
  customPorts,   \* calculateRoutes argument: link id -> LinkPortConfig
  polylines,   \* cleanPoints of every link (calculateRoutes local)
  routes,      \* RouteResult[]
  memo,        \* calcRank: memo map
  visited,     \* calcRank: the visited set of the running top-level call
  stack,       \* calcRank: call stack of frames
  todo,        \* units.forEach of line 181: units still to rank
  retval,      \* value returned by the calcRank call that finished last
  layoutMode,  \* MatrixCanvas state: 'auto' | 'manual'
  manualPositions, \* MatrixCanvas state: unit id -> {x, y}
  activeTool,  \* MatrixCanvas state: 'select' | 'node' | 'edge' | 'eraser'
  selectedId,  \* MatrixCanvas state: id of the selected unit or link, or null
  handleKeyDown \* what the registered keydown listener closes over

vars == <<pc, units, relations, rawAdj, adj, nodes, links, layers,
          customOffsets, customPorts, polylines, routes,
          memo, visited, stack, todo, retval,
          layoutMode, manualPositions, activeTool, selectedId, handleKeyDown>>

-----------------------------------------------------------------------------
(* Generic sequence helpers (Array.prototype.includes / filter / sort).    *)

Includes(s, x) == \E i \in DOMAIN s : s[i] = x

Range(s) == {s[i] : i \in DOMAIN s}

Max(a, b) == IF a >= b THEN a ELSE b

Min(a, b) == IF a <= b THEN a ELSE b

Abs(a) == IF a >= 0 THEN a ELSE 0 - a

-----------------------------------------------------------------------------
(* Types of src/types.ts.                                                  *)

LAYER == "LAYER"
ASH_PIT == "ASH_PIT"
CUTS == "CUTS"
OVERLAYS == "OVERLAYS"
NoId == <<>>   \* openingLayerId absent (undefined / empty string)

Unit(id, type, opening) == [id |-> id, type |-> type, openingLayerId |-> opening]

Relation(rid, s, t, type) == [id |-> rid, sourceId |-> s, targetId |-> t, type |-> type]

UnitIds(us) == {us[i].id : i \in DOMAIN us}

RECURSIVE IdSeq(_)
IdSeq(us) == IF us = <<>> THEN <<>> ELSE <<Head(us).id>> \o IdSeq(Tail(us))

UnitOf(us, id) == us[CHOOSE i \in DOMAIN us : us[i].id = id]

TypeOfId(us, id) == UnitOf(us, id).type

-----------------------------------------------------------------------------
(* Id parsing and comparison.                                              *)

Digits == <<"0", "1", "2", "3", "4", "5", "6", "7", "8", "9">>

LowerLetters == <<"a", "b", "c", "d", "e", "f", "g", "h", "i", "j", "k", "l", "m",
                  "n", "o", "p", "q", "r", "s", "t", "u", "v", "w", "x", "y", "z">>

\* Collation order of the characters used in ids (digits before letters,
\* letters alphabetically); exact for ids that do not differ by case only.
Collation == Digits \o <<"a", "b", "H", "M">>

IndexOf(s, c) == CHOOSE i \in DOMAIN s : s[i] = c

IsDigit(c) == Includes(Digits, c)

IsLower(c) == Includes(LowerLetters, c)

RECURSIVE DigitPrefixLen(_)
DigitPrefixLen(id) ==
  IF id = <<>> \/ ~IsDigit(Head(id)) THEN 0 ELSE 1 + DigitPrefixLen(Tail(id))

RECURSIVE ParseInt(_)
ParseInt(ds) ==
  IF ds = <<>> THEN 0
  ELSE ParseInt(SubSeq(ds, 1, Len(ds) - 1)) * 10 + (IndexOf(Digits, ds[Len(ds)]) - 1)

CharCode(c) == 96 + IndexOf(LowerLetters, c)

\* the sort value without the suffix letter
getLayerSortValueNoSuffix(id) ==
  LET n == DigitPrefixLen(id)
      suffix == SubSeq(id, n + 1, Len(id))
      match == n >= 1 /\ \A i \in DOMAIN suffix : IsLower(suffix[i])
  IN  IF ~match THEN 99999 ELSE ParseInt(SubSeq(id, 1, n)) * 100

getLayerSortValue(id) ==
  LET n == DigitPrefixLen(id)
      suffix == SubSeq(id, n + 1, Len(id))
      match == n >= 1 /\ \A i \in DOMAIN suffix : IsLower(suffix[i])
      suffixVal == IF suffix # <<>> THEN CharCode(suffix[1]) - 96 ELSE 0
  IN  IF ~match THEN 99999 ELSE ParseInt(SubSeq(id, 1, n)) * 100 + suffixVal

RECURSIVE localeCompare(_, _)
localeCompare(a, b) ==
  IF a = <<>> /\ b = <<>> THEN 0
  ELSE IF a = <<>> THEN -1
  ELSE IF b = <<>> THEN 1
  ELSE LET ca == IndexOf(Collation, Head(a))
           cb == IndexOf(Collation, Head(b))
       IN  IF ca < cb THEN -1
           ELSE IF ca > cb THEN 1
           ELSE localeCompare(Tail(a), Tail(b))

-----------------------------------------------------------------------------
(* 1. Build Adjacency & Implicit Relations (calculateLayout, lines 87-116) *)

\* addEdge without the includes test
addEdgeNoDedupe(raw, u, v) ==
  IF u \notin DOMAIN raw \/ v \notin DOMAIN raw THEN raw
  ELSE [raw EXCEPT ![u] = Append(@, v)]

addEdge(raw, u, v) ==
  IF u \notin DOMAIN raw \/ v \notin DOMAIN raw THEN raw
  ELSE IF Includes(raw[u], v) THEN raw
  ELSE [raw EXCEPT ![u] = Append(@, v)]

RECURSIVE AddRelations(_, _)
AddRelations(raw, rs) ==
  IF rs = <<>> THEN raw
  ELSE AddRelations(addEdge(raw, Head(rs).sourceId, Head(rs).targetId), Tail(rs))

RECURSIVE AddOpening(_, _)
AddOpening(raw, us) ==
  IF us = <<>> THEN raw
  ELSE LET u == Head(us)
       IN  AddOpening(IF u.openingLayerId # NoId /\ u.openingLayerId \in DOMAIN raw
                      THEN addEdge(raw, u.openingLayerId, u.id)
                      ELSE raw,
                      Tail(us))

LayerLess(a, b) == getLayerSortValue(a.id) - getLayerSortValue(b.id) < 0

\* Array.prototype.sort is stable: a unit goes after every unit already
\* placed that does not compare greater than it.
RECURSIVE InsertLayer(_, _)
InsertLayer(s, u) ==
  IF s = <<>> THEN <<u>>
  ELSE IF LayerLess(u, s[Len(s)])
       THEN Append(InsertLayer(SubSeq(s, 1, Len(s) - 1), u), s[Len(s)])
       ELSE Append(s, u)

RECURSIVE SortLayers(_)
SortLayers(s) ==
  IF s = <<>> THEN <<>>
  ELSE InsertLayer(SortLayers(SubSeq(s, 1, Len(s) - 1)), s[Len(s)])

allLayers(us) == SortLayers(SelectSeq(us, LAMBDA u : u.type = LAYER))

RECURSIVE AddChain(_, _, _)
AddChain(raw, ls, i) ==
  IF i > Len(ls) - 1 THEN raw
  ELSE AddChain(addEdge(raw, ls[i].id, ls[i + 1].id), ls, i + 1)

BuildRawAdj(us, rs) ==
  AddChain(AddOpening(AddRelations([id \in UnitIds(us) |-> <<>>], rs), us), allLayers(us), 1)

-----------------------------------------------------------------------------
(* 2. Transitive Reduction (lines 21-59)                                   *)

RECURSIVE DFS(_, _, _, _)
DFS(stk, vis, end, a) ==
  IF stk = <<>> THEN FALSE
  ELSE LET curr == stk[Len(stk)]
           rest == SubSeq(stk, 1, Len(stk) - 1)
       IN  IF curr \in vis THEN DFS(rest, vis, end, a)
           ELSE LET neighbors == IF curr \in DOMAIN a THEN a[curr] ELSE <<>>
                IN  IF Includes(neighbors, end) THEN TRUE
                    ELSE DFS(rest \o neighbors, vis \cup {curr}, end, a)

\* reachability that looks no further than the direct neighbours
isReachableDirect(start, end, a) ==
  IF start = end THEN TRUE
  ELSE start \in DOMAIN a /\ Includes(a[start], end)

isReachable(start, end, a) ==
  IF start = end THEN TRUE ELSE DFS(<<start>>, {}, end, a)

\* the redundancy test without the reachability search: any other child
\* makes the edge redundant
IsRedundantBySibling(red, children, j) ==
  \E kx \in DOMAIN children : children[kx] # j

IsRedundant(red, children, j) ==
  \E kx \in DOMAIN children :
     children[kx] # j /\ isReachable(children[kx], j, red)

RECURSIVE ReduceChildren(_, _, _, _)
ReduceChildren(red, i, children, jx) ==
  IF jx > Len(children) THEN red
  ELSE LET j == children[jx]
           next == IF IsRedundant(red, children, j)
                   THEN [red EXCEPT ![i] = SelectSeq(@, LAMBDA c : c # j)]
                   ELSE red
       IN  ReduceChildren(next, i, children, jx + 1)

RECURSIVE ReduceNodes(_, _, _)
ReduceNodes(red, ns, ix) ==
  IF ix > Len(ns) THEN red
  ELSE ReduceNodes(ReduceChildren(red, ns[ix], red[ns[ix]], 1), ns, ix + 1)

\* the copy of the adjacency, returned without the reduction loop
performNoReduction(ns, a) == [n \in Range(ns) |-> a[n]]

performTransitiveReduction(ns, a) ==
  ReduceNodes([n \in Range(ns) |-> a[n]], ns, 1)

-----------------------------------------------------------------------------
(* 3. Rank Assignment (lines 122-183), as the function the code computes.  *)

layerHasFeatures(us, raw, id) ==
  \E cx \in DOMAIN raw[id] : TypeOfId(us, raw[id][cx]) # LAYER

\* the weight with the feature test made on the child layer
getEdgeWeightOfChild(us, raw, parentId, childId) ==
  IF TypeOfId(us, parentId) = LAYER /\ TypeOfId(us, childId) = LAYER
     /\ layerHasFeatures(us, raw, childId)
  THEN 2 ELSE 1

getEdgeWeight(us, raw, parentId, childId) ==
  IF TypeOfId(us, parentId) = LAYER /\ TypeOfId(us, childId) = LAYER
     /\ layerHasFeatures(us, raw, parentId)
  THEN 2 ELSE 1

\* adj.forEach((kids, pid) => { if (kids.includes(nodeId)) parents.push(pid) })
ParentsOf(ns, a, nodeId) == SelectSeq(ns, LAMBDA p : Includes(a[p], nodeId))

\* line 154: if (visited.has(nodeId)) return 0
OnPath(nodeId, vis) == nodeId \in vis

ReEntryRank == 0

\* the parent loop with the parent's own rank left out of the maximum
RECURSIVE RankParentsWeightOnly(_, _, _, _, _, _, _, _, _)
RankParentsWeightOnly(us, raw, a, nodeId, parents, px, maxParentRank, vis, mem) ==
  IF px > Len(parents) THEN [rank |-> maxParentRank, memo |-> mem]
  ELSE RankParentsWeightOnly(us, raw, a, nodeId, parents, px + 1,
                             Max(maxParentRank, getEdgeWeight(us, raw, parents[px], nodeId)),
                             vis, mem)

RECURSIVE calcRank(_, _, _, _, _, _)
RECURSIVE RankParents(_, _, _, _, _, _, _, _, _)
calcRank(us, raw, a, nodeId, vis, mem) ==
  IF OnPath(nodeId, vis) THEN [rank |-> ReEntryRank, memo |-> mem]
  ELSE IF nodeId \in DOMAIN mem THEN [rank |-> mem[nodeId], memo |-> mem]
  ELSE LET parents == ParentsOf(IdSeq(us), a, nodeId)
       IN  IF parents = <<>> THEN [rank |-> 0, memo |-> (nodeId :> 0) @@ mem]
           ELSE LET r == RankParents(us, raw, a, nodeId, parents, 1, 0,
                                     vis \cup {nodeId}, mem)
                IN  [rank |-> r.rank, memo |-> (nodeId :> r.rank) @@ r.memo]

RankParents(us, raw, a, nodeId, parents, px, maxParentRank, vis, mem) ==
  IF px > Len(parents) THEN [rank |-> maxParentRank, memo |-> mem]
  ELSE LET p == parents[px]
           w == getEdgeWeight(us, raw, p, nodeId)
           c == calcRank(us, raw, a, p, vis, mem)
       IN  RankParents(us, raw, a, nodeId, parents, px + 1,
                       Max(maxParentRank, c.rank + w), vis, c.memo)

\* units.forEach(u => nodeMap.get(u.id).rank = calcRank(u.id, new Set()))
RECURSIVE RankUnits(_, _, _, _, _, _)
RankUnits(us, raw, a, ux, mem, ranks) ==
  IF ux > Len(us) THEN ranks
  ELSE LET c == calcRank(us, raw, a, us[ux].id, {}, mem)
       IN  RankUnits(us, raw, a, ux + 1, c.memo, (us[ux].id :> c.rank) @@ ranks)

AssignRanks(us, raw, a) == RankUnits(us, raw, a, 1, <<>>, <<>>)

-----------------------------------------------------------------------------
(* 4. Coordinate Assignment (lines 185-277).  Coordinates are counted in   *)
(* units of 1/PX pixel, so that half pixels and the 0.1 pixel tolerances   *)
(* of calculateRoutes are integers.                                        *)

PX == 2 * 10

width == 1000 * PX

X_SPACING == 90 * PX

Y_SPACING == 80 * PX

\* Math.max() of no arguments is -Infinity: a value below every number,
\* and -Infinity + 1 = -Infinity.
NegInfinity == -999999

canvasCenterX == width \div 2

RECURSIVE MaxOver(_, _)
MaxOver(ids, ranks) ==
  IF ids = <<>> THEN NegInfinity
  ELSE LET m == MaxOver(Tail(ids), ranks)
       IN  IF m = NegInfinity THEN ranks[Head(ids)] ELSE Max(ranks[Head(ids)], m)

\* rankGroups[r]: the nodes of rank r in nodeMap order; no group when maxRank = -Infinity
RECURSIVE GroupsFrom(_, _, _, _)
GroupsFrom(ns, ranks, r, maxRank) ==
  IF r > maxRank THEN <<>>
  ELSE <<SelectSeq(ns, LAMBDA n : ranks[n] = r)>> \o GroupsFrom(ns, ranks, r + 1, maxRank)

RankGroups(ns, ranks, maxRank) ==
  IF maxRank = NegInfinity THEN <<>> ELSE GroupsFrom(ns, ranks, 0, maxRank)

InitialSides(us) ==
  [id \in {us[i].id : i \in {k \in DOMAIN us : us[k].type = LAYER}} |-> "center"]

\* single child centring without the hasLayerChild test
RECURSIVE CenterAnySingleChild(_, _, _, _)
CenterAnySingleChild(us, a, side, ux) ==
  IF ux > Len(us) THEN side
  ELSE IF us[ux].type # LAYER THEN CenterAnySingleChild(us, a, side, ux + 1)
  ELSE LET children == a[us[ux].id]
           featureChildren == SelectSeq(children, LAMBDA c : TypeOfId(us, c) # LAYER)
           next == IF Len(featureChildren) = 1 /\ featureChildren[1] \notin DOMAIN side
                   THEN (featureChildren[1] :> "center") @@ side
                   ELSE side
       IN  CenterAnySingleChild(us, a, next, ux + 1)

RECURSIVE CenterSingleChildren(_, _, _, _)
CenterSingleChildren(us, a, side, ux) ==
  IF ux > Len(us) THEN side
  ELSE IF us[ux].type # LAYER THEN CenterSingleChildren(us, a, side, ux + 1)
  ELSE LET children == a[us[ux].id]
           featureChildren == SelectSeq(children, LAMBDA c : TypeOfId(us, c) # LAYER)
           hasLayerChild == \E cx \in DOMAIN children : TypeOfId(us, children[cx]) = LAYER
           next == IF Len(featureChildren) = 1 /\ ~hasLayerChild
                      /\ featureChildren[1] \notin DOMAIN side
                   THEN (featureChildren[1] :> "center") @@ side
                   ELSE side
       IN  CenterSingleChildren(us, a, next, ux + 1)

CountSide(side, ids, s) ==
  Cardinality({i \in DOMAIN ids : ids[i] \in DOMAIN side /\ side[ids[i]] = s})

\* the side loop with the tie broken by currentLeft < currentRight
RECURSIVE PropagateNodesStrict(_, _, _, _, _)
PropagateNodesStrict(ns, a, side, nodesInRank, nx) ==
  IF nx > Len(nodesInRank) THEN side
  ELSE LET n == nodesInRank[nx]
       IN  IF n \in DOMAIN side THEN PropagateNodesStrict(ns, a, side, nodesInRank, nx + 1)
           ELSE LET parents == ParentsOf(ns, a, n)
                    balance == CountSide(side, parents, "right") - CountSide(side, parents, "left")
                    currentLeft == CountSide(side, nodesInRank, "left")
                    currentRight == CountSide(side, nodesInRank, "right")
                    s == IF balance < 0 THEN "left"
                         ELSE IF balance > 0 THEN "right"
                         ELSE IF currentLeft < currentRight THEN "left" ELSE "right"
                IN  PropagateNodesStrict(ns, a, (n :> s) @@ side, nodesInRank, nx + 1)

\* the side loop with the tie-break taken whenever the parents are not all
\* on one side
RECURSIVE PropagateNodesUnanimous(_, _, _, _, _)
PropagateNodesUnanimous(ns, a, side, nodesInRank, nx) ==
  IF nx > Len(nodesInRank) THEN side
  ELSE LET n == nodesInRank[nx]
       IN  IF n \in DOMAIN side THEN PropagateNodesUnanimous(ns, a, side, nodesInRank, nx + 1)
           ELSE LET parents == ParentsOf(ns, a, n)
                    lefts == CountSide(side, parents, "left")
                    rights == CountSide(side, parents, "right")
                    currentLeft == CountSide(side, nodesInRank, "left")
                    currentRight == CountSide(side, nodesInRank, "right")
                    s == IF lefts > 0 /\ rights = 0 THEN "left"
                         ELSE IF rights > 0 /\ lefts = 0 THEN "right"
                         ELSE IF currentLeft <= currentRight THEN "left" ELSE "right"
                IN  PropagateNodesUnanimous(ns, a, (n :> s) @@ side, nodesInRank, nx + 1)

RECURSIVE PropagateNodes(_, _, _, _, _)
PropagateNodes(ns, a, side, nodesInRank, nx) ==
  IF nx > Len(nodesInRank) THEN side
  ELSE LET n == nodesInRank[nx]
       IN  IF n \in DOMAIN side THEN PropagateNodes(ns, a, side, nodesInRank, nx + 1)
           ELSE LET parents == ParentsOf(ns, a, n)
                    balance == CountSide(side, parents, "right") - CountSide(side, parents, "left")
                    currentLeft == CountSide(side, nodesInRank, "left")
                    currentRight == CountSide(side, nodesInRank, "right")
                    s == IF balance < 0 THEN "left"
                         ELSE IF balance > 0 THEN "right"
                         ELSE IF currentLeft <= currentRight THEN "left" ELSE "right"
                IN  PropagateNodes(ns, a, (n :> s) @@ side, nodesInRank, nx + 1)

RECURSIVE PropagateSides(_, _, _, _, _)
PropagateSides(ns, a, side, groups, g) ==
  IF g > Len(groups) THEN side
  ELSE PropagateSides(ns, a, PropagateNodes(ns, a, side, groups[g], 1), groups, g + 1)

AssignSides(us, a, groups) ==
  PropagateSides(IdSeq(us), a, CenterSingleChildren(us, a, InitialSides(us), 1), groups, 1)

\* leftNodes.sort((a, b) => b.id.localeCompare(a.id)); rightNodes.sort((a, b) => a.id.localeCompare(b.id))
IdCompare(a, b, descending) == IF descending THEN localeCompare(b, a) ELSE localeCompare(a, b)

RECURSIVE InsertId(_, _, _)
InsertId(s, x, descending) ==
  IF s = <<>> THEN <<x>>
  ELSE IF IdCompare(x, s[Len(s)], descending) < 0
       THEN Append(InsertId(SubSeq(s, 1, Len(s) - 1), x, descending), s[Len(s)])
       ELSE Append(s, x)

RECURSIVE SortIds(_, _)
SortIds(s, descending) ==
  IF s = <<>> THEN <<>>
  ELSE InsertId(SortIds(SubSeq(s, 1, Len(s) - 1), descending), s[Len(s)], descending)

\* columns counted from i instead of i + 1
NodeXFromZero(side, nodesInRank, n) ==
  LET leftNodes == SortIds(SelectSeq(nodesInRank, LAMBDA m : side[m] = "left"), TRUE)
      rightNodes == SortIds(SelectSeq(nodesInRank, LAMBDA m : side[m] = "right"), FALSE)
  IN  IF side[n] = "center" THEN canvasCenterX
      ELSE IF side[n] = "left" THEN canvasCenterX - X_SPACING * (IndexOf(leftNodes, n) - 1)
      ELSE canvasCenterX + X_SPACING * (IndexOf(rightNodes, n) - 1)

\* the right column laid out with the left column's sign
NodeXOneSided(side, nodesInRank, n) ==
  LET leftNodes == SortIds(SelectSeq(nodesInRank, LAMBDA m : side[m] = "left"), TRUE)
      rightNodes == SortIds(SelectSeq(nodesInRank, LAMBDA m : side[m] = "right"), FALSE)
  IN  IF side[n] = "center" THEN canvasCenterX
      ELSE IF side[n] = "left" THEN canvasCenterX - X_SPACING * IndexOf(leftNodes, n)
      ELSE canvasCenterX - X_SPACING * IndexOf(rightNodes, n)

NodeX(side, nodesInRank, n) ==
  LET leftNodes == SortIds(SelectSeq(nodesInRank, LAMBDA m : side[m] = "left"), TRUE)
      rightNodes == SortIds(SelectSeq(nodesInRank, LAMBDA m : side[m] = "right"), FALSE)
  IN  IF side[n] = "center" THEN canvasCenterX
      ELSE IF side[n] = "left" THEN canvasCenterX - X_SPACING * IndexOf(leftNodes, n)
      ELSE canvasCenterX + X_SPACING * IndexOf(rightNodes, n)

NodeY(rankIndex) == 80 * PX + rankIndex * Y_SPACING

-----------------------------------------------------------------------------
(* 5. Final Links (lines 279-300)                                          *)

FindRelation(rs, s, t) ==
  LET hits == {i \in DOMAIN rs : rs[i].sourceId = s /\ rs[i].targetId = t}
  IN  IF hits = {} THEN 0 ELSE CHOOSE i \in hits : \A k \in hits : i <= k

\* the link that takes the type of the relation it came from
LinkForRelationType(us, rs, s, t) ==
  LET rx == FindRelation(rs, s, t)
  IN  [id |-> IF rx # 0 THEN rs[rx].id ELSE s \o <<"-">> \o t,
       source |-> s,
       target |-> t,
       type |-> IF rx # 0 THEN rs[rx].type
                ELSE IF TypeOfId(us, s) = LAYER THEN OVERLAYS ELSE CUTS]

LinkFor(us, rs, s, t) ==
  LET rx == FindRelation(rs, s, t)
  IN  [id |-> IF rx # 0 THEN rs[rx].id ELSE s \o <<"-">> \o t,
       source |-> s,
       target |-> t,
       type |-> IF TypeOfId(us, s) = LAYER THEN OVERLAYS ELSE CUTS]

RECURSIVE FinalLinks(_, _, _, _, _)
FinalLinks(us, rs, a, ns, ix) ==
  IF ix > Len(ns) THEN <<>>
  ELSE [tx \in DOMAIN a[ns[ix]] |-> LinkFor(us, rs, ns[ix], a[ns[ix]][tx])]
       \o FinalLinks(us, rs, a, ns, ix + 1)

calculateLayout(us, rs) ==
  LET ns == IdSeq(us)
      raw == BuildRawAdj(us, rs)
      red == performTransitiveReduction(ns, raw)
      ranks == AssignRanks(us, raw, red)
      maxRank == MaxOver(ns, ranks)
      groups == RankGroups(ns, ranks, maxRank)
      side == AssignSides(us, red, groups)
  IN  [rawAdj |-> raw,
       adj |-> red,
       nodes |-> [i \in DOMAIN us |->
                    [id |-> us[i].id, type |-> us[i].type,
                     openingLayerId |-> us[i].openingLayerId,
                     rank |-> ranks[us[i].id],
                     x |-> NodeX(side, groups[ranks[us[i].id] + 1], us[i].id),
                     y |-> NodeY(ranks[us[i].id])]],
       links |-> FinalLinks(us, rs, red, ns, 1),
       layers |-> IF maxRank = NegInfinity THEN NegInfinity ELSE maxRank + 1]

-----------------------------------------------------------------------------
(* Part 2: calculateRoutes (lines 318-592).  A link holds the ids of its   *)
(* source and target; the node objects are found in the node list.  Node   *)
(* coordinates are whole pixels; customOffsets values are any multiple of  *)
(* 1/PX pixel.                                                             *)

UNIT_WIDTH == 60 * PX

UNIT_HEIGHT == 28 * PX

LAYER_RADIUS == 18 * PX

BRIDGE_RADIUS == 6 * PX

DEFAULT_GAP == 20 * PX

Tolerance == PX \div 10   \* the 0.1 of lines 459 and 474

Sides == {"top", "bottom", "left", "right"}

NoSide == "unset"         \* sourceSide / targetSide absent from a LinkPortConfig

NoPorts == [sourceSide |-> NoSide, targetSide |-> NoSide]

Pt(x, y) == [x |-> x, y |-> y]

NodeById(ns, id) == ns[CHOOSE i \in DOMAIN ns : ns[i].id = id]

NodeW(n) == IF n.type = LAYER THEN LAYER_RADIUS * 2 ELSE UNIT_WIDTH

NodeH(n) == IF n.type = LAYER THEN LAYER_RADIUS * 2 ELSE UNIT_HEIGHT

Anchor(n, sd) ==
  CASE sd = "top" -> Pt(n.x, n.y - NodeH(n) \div 2)
    [] sd = "bottom" -> Pt(n.x, n.y + NodeH(n) \div 2)
    [] sd = "left" -> Pt(n.x - NodeW(n) \div 2, n.y)
    [] sd = "right" -> Pt(n.x + NodeW(n) \div 2, n.y)

Stub(p, sd) ==
  CASE sd = "top" -> Pt(p.x, p.y - DEFAULT_GAP)
    [] sd = "bottom" -> Pt(p.x, p.y + DEFAULT_GAP)
    [] sd = "left" -> Pt(p.x - DEFAULT_GAP, p.y)
    [] sd = "right" -> Pt(p.x + DEFAULT_GAP, p.y)

RECURSIVE SumX(_)
SumX(ns) == IF ns = <<>> THEN 0 ELSE Head(ns).x + SumX(Tail(ns))

\* x <= meanX, with meanX = sum / length (0 for no nodes)
AtMostMeanX(x, ns) == IF Len(ns) > 0 THEN x * Len(ns) <= SumX(ns) ELSE x <= 0

\* the default sides with bottom -> top taken whenever the target is below
DefaultSidesBelowFirst(src, tgt, linkType, ns) ==
  LET isVerticalAligned == Abs(tgt.x - src.x) < 40 * PX
      far == Abs(tgt.x - src.x) > 100 * PX
      preferredSide == IF AtMostMeanX(src.x, ns) THEN "left" ELSE "right"
  IN  IF linkType = CUTS /\ isVerticalAligned
      THEN [source |-> preferredSide, target |-> preferredSide]
      ELSE IF tgt.y > src.y THEN [source |-> "bottom", target |-> "top"]
      ELSE [source |-> IF src.type = LAYER THEN "bottom"
                       ELSE IF tgt.y < src.y THEN "top"
                       ELSE IF far THEN (IF tgt.x > src.x THEN "right" ELSE "left")
                       ELSE "bottom",
            target |-> IF src.y > tgt.y + 30 * PX THEN "bottom"
                       ELSE IF far THEN (IF tgt.x > src.x THEN "left" ELSE "right")
                       ELSE "top"]

\* the default sides with the aligned-CUTS side taken from the half of the
\* canvas the source stands in
DefaultSidesCanvasHalf(src, tgt, linkType, ns) ==
  LET isVerticalAligned == Abs(tgt.x - src.x) < 40 * PX
      far == Abs(tgt.x - src.x) > 100 * PX
      preferredSide == IF src.x <= canvasCenterX THEN "left" ELSE "right"
  IN  IF linkType = CUTS /\ isVerticalAligned
      THEN [source |-> preferredSide, target |-> preferredSide]
      ELSE [source |-> IF src.type = LAYER THEN "bottom"
                       ELSE IF tgt.y < src.y THEN "top"
                       ELSE IF far THEN (IF tgt.x > src.x THEN "right" ELSE "left")
                       ELSE "bottom",
            target |-> IF src.y > tgt.y + 30 * PX THEN "bottom"
                       ELSE IF far THEN (IF tgt.x > src.x THEN "left" ELSE "right")
                       ELSE "top"]

DefaultSides(src, tgt, linkType, ns) ==
  LET isVerticalAligned == Abs(tgt.x - src.x) < 40 * PX
      far == Abs(tgt.x - src.x) > 100 * PX
      preferredSide == IF AtMostMeanX(src.x, ns) THEN "left" ELSE "right"
  IN  IF linkType = CUTS /\ isVerticalAligned
      THEN [source |-> preferredSide, target |-> preferredSide]
      ELSE [source |-> IF src.type = LAYER THEN "bottom"
                       ELSE IF tgt.y < src.y THEN "top"
                       ELSE IF far THEN (IF tgt.x > src.x THEN "right" ELSE "left")
                       ELSE "bottom",
            target |-> IF src.y > tgt.y + 30 * PX THEN "bottom"
                       ELSE IF far THEN (IF tgt.x > src.x THEN "left" ELSE "right")
                       ELSE "top"]

IsVerticalSide(sd) == sd = "top" \/ sd = "bottom"

\* points.filter((p, idx) => idx === 0 || |p.x - points[idx-1].x| > 0.1 || |p.y - points[idx-1].y| > 0.1)
RECURSIVE CleanFrom(_, _)
CleanFrom(points, idx) ==
  IF idx > Len(points) THEN <<>>
  ELSE (IF idx = 1 \/ Abs(points[idx].x - points[idx - 1].x) > Tolerance
                   \/ Abs(points[idx].y - points[idx - 1].y) > Tolerance
        THEN <<points[idx]>> ELSE <<>>) \o CleanFrom(points, idx + 1)

cleanPoints(points) == CleanFrom(points, 1)

RouteOf(ns, link, offsets, ports) ==
  LET src == NodeById(ns, link.source)
      tgt == NodeById(ns, link.target)
      config == IF link.id \in DOMAIN ports THEN ports[link.id] ELSE NoPorts
      dflt == DefaultSides(src, tgt, link.type, ns)
      sSide == IF config.sourceSide # NoSide THEN config.sourceSide ELSE dflt.source
      tSide == IF config.targetSide # NoSide THEN config.targetSide ELSE dflt.target
      start == Anchor(src, sSide)
      end == Anchor(tgt, tSide)
      exitPt == Stub(start, sSide)
      entryPt == Stub(end, tSide)
      isVerticalExit == IsVerticalSide(sSide)
      isVerticalEntry == IsVerticalSide(tSide)
      hasOffset == link.id \in DOMAIN offsets
      midY == IF hasOffset THEN offsets[link.id] ELSE (exitPt.y + entryPt.y) \div 2
      midX == IF hasOffset THEN offsets[link.id]
              ELSE IF sSide = "left" THEN Min(exitPt.x, entryPt.x) - 20 * PX
              ELSE Max(exitPt.x, entryPt.x) + 20 * PX
      routeType == IF isVerticalExit /\ isVerticalEntry THEN "VerticalStack"
                   ELSE IF ~isVerticalExit /\ ~isVerticalEntry THEN "SideBracket"
                   ELSE "Mixed"
      middle == IF routeType = "VerticalStack" THEN <<Pt(exitPt.x, midY), Pt(entryPt.x, midY)>>
                ELSE IF routeType = "SideBracket" THEN <<Pt(midX, exitPt.y), Pt(midX, entryPt.y)>>
                ELSE IF isVerticalExit THEN <<Pt(exitPt.x, entryPt.y)>>
                ELSE <<Pt(entryPt.x, exitPt.y)>>
      last == middle[Len(middle)]
      fix == IF last.x # entryPt.x /\ last.y # entryPt.y THEN <<Pt(entryPt.x, last.y)>> ELSE <<>>
      points == <<start, exitPt>> \o middle \o fix \o <<entryPt, end>>
  IN  [points |-> points,
       cleanPoints |-> cleanPoints(points),
       routeType |-> routeType,
       controlPoint |-> IF routeType = "VerticalStack" THEN midY
                        ELSE IF routeType = "SideBracket" THEN midX ELSE 0,
       sSide |-> sSide, tSide |-> tSide, start |-> start, end |-> end]

RECURSIVE Polylines(_, _, _, _)
Polylines(ns, ls, offsets, ports) ==
  IF ls = <<>> THEN <<>>
  ELSE <<RouteOf(ns, Head(ls), offsets, ports).cleanPoints>>
       \o Polylines(ns, Tail(ls), offsets, ports)

----
(* Bridges Calculation (lines 466-508)                                     *)

IsVSeg(p1, p2) == Abs(p1.x - p2.x) < Tolerance

\* the crossing test without the BRIDGE_RADIUS padding
RECURSIVE JumpsFromUnpadded(_, _, _, _, _)
JumpsFromUnpadded(polys, linkIdx, segIdx, hl, hs) ==
  IF hl > Len(polys) THEN <<>>
  ELSE IF hs > Len(polys[hl]) - 1 THEN JumpsFromUnpadded(polys, linkIdx, segIdx, hl + 1, 1)
  ELSE LET p1 == polys[linkIdx][segIdx]
           p2 == polys[linkIdx][segIdx + 1]
           q1 == polys[hl][hs]
           q2 == polys[hl][hs + 1]
           hit == /\ ~IsVSeg(q1, q2)
                  /\ hl # linkIdx
                  /\ p1.x > Min(q1.x, q2.x) /\ p1.x < Max(q1.x, q2.x)
                  /\ q1.y > Min(p1.y, p2.y) /\ q1.y < Max(p1.y, p2.y)
       IN  (IF hit THEN <<q1.y>> ELSE <<>>)
           \o JumpsFromUnpadded(polys, linkIdx, segIdx, hl, hs + 1)

\* jumps.get(linkIdx).get(segIdx): the y of every horizontal segment of
\* another link that crosses vertical segment segIdx, in hSegments order
RECURSIVE JumpsFrom(_, _, _, _, _)
JumpsFrom(polys, linkIdx, segIdx, hl, hs) ==
  IF hl > Len(polys) THEN <<>>
  ELSE IF hs > Len(polys[hl]) - 1 THEN JumpsFrom(polys, linkIdx, segIdx, hl + 1, 1)
  ELSE LET p1 == polys[linkIdx][segIdx]
           p2 == polys[linkIdx][segIdx + 1]
           q1 == polys[hl][hs]
           q2 == polys[hl][hs + 1]
           vx == p1.x
           vy1 == Min(p1.y, p2.y)
           vy2 == Max(p1.y, p2.y)
           hy == q1.y
           hx1 == Min(q1.x, q2.x)
           hx2 == Max(q1.x, q2.x)
           hit == /\ ~IsVSeg(q1, q2)
                  /\ hl # linkIdx
                  /\ vx > hx1 + BRIDGE_RADIUS /\ vx < hx2 - BRIDGE_RADIUS
                  /\ hy > vy1 + BRIDGE_RADIUS /\ hy < vy2 - BRIDGE_RADIUS
       IN  (IF hit THEN <<hy>> ELSE <<>>) \o JumpsFrom(polys, linkIdx, segIdx, hl, hs + 1)

segJumpsOf(polys, linkIdx, segIdx) ==
  IF IsVSeg(polys[linkIdx][segIdx], polys[linkIdx][segIdx + 1])
  THEN JumpsFrom(polys, linkIdx, segIdx, 1, 1)
  ELSE <<>>

----
(* Path generation (lines 510-591).  A path is the sequence of its drawing *)
(* commands: <<"M", x, y>>, <<"L", x, y>> and <<"A", 2 * radius, x, y>>.   *)

\* segJumps.sort((a, b) => isDown ? a - b : b - a)
RECURSIVE InsertNum(_, _, _)
InsertNum(s, x, isDown) ==
  IF s = <<>> THEN <<x>>
  ELSE IF (IF isDown THEN x - s[Len(s)] ELSE s[Len(s)] - x) < 0
       THEN Append(InsertNum(SubSeq(s, 1, Len(s) - 1), x, isDown), s[Len(s)])
       ELSE Append(s, x)

RECURSIVE SortJumps(_, _)
SortJumps(s, isDown) ==
  IF s = <<>> THEN <<>>
  ELSE InsertNum(SortJumps(SubSeq(s, 1, Len(s) - 1), isDown), s[Len(s)], isDown)

Interval(jy) == [start |-> jy - BRIDGE_RADIUS, end |-> jy + BRIDGE_RADIUS]

\* the merge loop that never merges: every jump keeps its own interval
RECURSIVE MergeIntervalsApart(_, _, _, _)
MergeIntervalsApart(merged, sorted, ix, isDown) ==
  IF ix > Len(sorted) THEN merged
  ELSE MergeIntervalsApart(Append(merged, Interval(sorted[ix])), sorted, ix + 1, isDown)

RECURSIVE MergeIntervals(_, _, _, _)
MergeIntervals(merged, sorted, ix, isDown) ==
  IF ix > Len(sorted) THEN merged
  ELSE LET inv == Interval(sorted[ix])
           last == merged[Len(merged)]
           next ==
             IF merged = <<>> THEN <<inv>>
             ELSE IF isDown
             THEN (IF inv.start < last.end
                   THEN [merged EXCEPT ![Len(merged)].end = Max(last.end, inv.end)]
                   ELSE Append(merged, inv))
             ELSE (IF inv.end > last.start
                   THEN [merged EXCEPT ![Len(merged)].start = Min(last.start, inv.start)]
                   ELSE Append(merged, inv))
       IN  MergeIntervals(next, sorted, ix + 1, isDown)

mergedJumps(segJumps, isDown) == MergeIntervals(<<>>, SortJumps(segJumps, isDown), 1, isDown)

RECURSIVE ArcCommands(_, _, _, _, _)
ArcCommands(merged, mx, cursorY, x, isDown) ==
  IF mx > Len(merged) THEN [d |-> <<>>, cursorY |-> cursorY]
  ELSE LET inv == merged[mx]
           bridgeStart == IF isDown THEN inv.start ELSE inv.end
           bridgeEnd == IF isDown THEN inv.end ELSE inv.start
           dist == Abs(bridgeEnd - bridgeStart)
           line == IF Abs(cursorY - bridgeStart) > Tolerance
                   THEN <<<<"L", x, bridgeStart>>>> ELSE <<>>
           rest == ArcCommands(merged, mx + 1, bridgeEnd, x, isDown)
       IN  [d |-> line \o <<<<"A", dist, x, bridgeEnd>>>> \o rest.d, cursorY |-> rest.cursorY]

SegmentCommands(polys, linkIdx, i) ==
  LET currentPt == polys[linkIdx][i]
      nextPt == polys[linkIdx][i + 1]
      segJumps == segJumpsOf(polys, linkIdx, i)
      isDown == nextPt.y > currentPt.y
      arcs == ArcCommands(mergedJumps(segJumps, isDown), 1, currentPt.y, currentPt.x, isDown)
  IN  IF Len(segJumps) > 0
      THEN arcs.d \o (IF Abs(arcs.cursorY - nextPt.y) > Tolerance
                      THEN <<<<"L", nextPt.x, nextPt.y>>>> ELSE <<>>)
      ELSE <<<<"L", nextPt.x, nextPt.y>>>>

RECURSIVE PathFrom(_, _, _)
PathFrom(polys, linkIdx, i) ==
  IF i > Len(polys[linkIdx]) - 1 THEN <<>>
  ELSE SegmentCommands(polys, linkIdx, i) \o PathFrom(polys, linkIdx, i + 1)

PathOf(polys, linkIdx) ==
  <<<<"M", polys[linkIdx][1].x, polys[linkIdx][1].y>>>> \o PathFrom(polys, linkIdx, 1)

\* the routes with the customOffsets map left unread
RECURSIVE RoutesFromNoOffsets(_, _, _, _, _, _)
RoutesFromNoOffsets(polys, ns, ls, offsets, ports, i) ==
  IF i > Len(ls) THEN <<>>
  ELSE LET r == RouteOf(ns, ls[i], <<>>, ports)
       IN  <<[path |-> PathOf(polys, i),
              routeType |-> r.routeType,
              controlPoint |-> r.controlPoint]>>
           \o RoutesFromNoOffsets(polys, ns, ls, offsets, ports, i + 1)

RECURSIVE RoutesFrom(_, _, _, _, _, _)
RoutesFrom(polys, ns, ls, offsets, ports, i) ==
  IF i > Len(ls) THEN <<>>
  ELSE LET r == RouteOf(ns, ls[i], offsets, ports)
       IN  <<[path |-> PathOf(polys, i),
              routeType |-> r.routeType,
              controlPoint |-> r.controlPoint]>>
           \o RoutesFrom(polys, ns, ls, offsets, ports, i + 1)

calculateRoutes(ns, ls, offsets, ports) ==
  RoutesFrom(Polylines(ns, ls, offsets, ports), ns, ls, offsets, ports, 1)

-----------------------------------------------------------------------------
(* Inputs.  Layers are numbered ("1", "2", "2a", "10"), features carry a   *)
(* letter ("H1", "M1"), as UnitForm creates them.                          *)

id1 == <<"1">>
id2 == <<"2">>
id2a == <<"2", "a">>
id3 == <<"3">>
id10 == <<"1", "0">>
H1 == <<"H", "1">>
H2 == <<"H", "2">>
M1 == <<"M", "1">>
M2 == <<"M", "2">>
M3 == <<"M", "3">>

MaxUnits == 3      \* longest unit list of the general inputs
MaxRels == 2       \* longest relation list of the general inputs
MaxLayers == 4     \* longest unit list of the layer-only inputs

UnitPool == <<id1, H1, H2, id2>>
OpeningPool == {NoId, id1}
RelPool == {<<H1, H2>>, <<H2, H1>>, <<id1, H1>>, <<H1, id1>>, <<H1, H1>>, <<id2, H1>>}
LayerPool == <<id1, id2, id2a, id3, id10>>

KindOf(id) == IF IsDigit(Head(id)) THEN LAYER ELSE ASH_PIT

RelId(i) == <<"r", Digits[i + 1]>>

Injective(f) == \A i, j \in DOMAIN f : f[i] = f[j] => i = j

\* units is a list of at most maxLen units of the pool with pairwise
\* distinct ids (the caller keeps ids unique); features name an opening
\* layer, layers do not (UnitForm, lines 121-138)
UnitsFrom(pool, openings, maxLen) ==
  \E k \in 0..Min(maxLen, Len(pool)) :
    \E ix \in [1..k -> DOMAIN pool] :
      /\ Injective(ix)
      /\ \E op \in [1..k -> openings] :
           /\ \A i \in 1..k : KindOf(pool[ix[i]]) = LAYER => op[i] = NoId
           /\ units = [i \in 1..k |-> Unit(pool[ix[i]], KindOf(pool[ix[i]]), op[i])]

\* relations is a list of at most maxLen CUTS relations between the pairs
RelationsFrom(pairs, maxLen) ==
  \E k \in 0..maxLen :
    \E e \in [1..k -> pairs] :
      relations = [i \in 1..k |-> Relation(RelId(i), e[i][1], e[i][2], CUTS)]

NoMap == <<>>    \* an empty Map

canvasVars == <<layoutMode, manualPositions, activeTool, selectedId, handleKeyDown>>

\* no MatrixCanvas is mounted
CanvasUnset ==
  /\ layoutMode = "auto" /\ manualPositions = NoMap /\ activeTool = "select"
  /\ selectedId = <<>> /\ handleKeyDown = <<>>

Idle ==
  /\ rawAdj = NoMap /\ adj = NoMap /\ nodes = <<>> /\ links = <<>> /\ layers = 0
  /\ customOffsets = NoMap /\ customPorts = NoMap
  /\ polylines = <<>> /\ routes = <<>>
  /\ CanvasUnset
  /\ memo = NoMap /\ visited = {} /\ stack = <<>> /\ todo = <<>> /\ retval = 0

GeneralInput ==
  /\ UnitsFrom(UnitPool, OpeningPool, MaxUnits)
  /\ RelationsFrom(RelPool, MaxRels)

LayerInput ==
  /\ UnitsFrom(LayerPool, {NoId}, MaxLayers)
  /\ relations = <<>>

\* two layers and two features dug into the upper one, one cutting the other
BandInput ==
  /\ units = <<Unit(id1, LAYER, NoId), Unit(id2, LAYER, NoId),
               Unit(H1, ASH_PIT, id1), Unit(H2, ASH_PIT, id1)>>
  /\ relations = <<Relation(RelId(1), H1, H2, CUTS)>>

Init ==
  /\ pc = "input"
  /\ GeneralInput \/ LayerInput \/ BandInput
  /\ Idle

rankVars == <<memo, visited, stack, todo, retval>>

\* the layout step with the layer sort of line 112 applied to the unit
\* list itself instead of to the filtered copy
CalculateLayoutSortInPlace ==
  /\ pc = "input"
  /\ LET out == calculateLayout(units, relations)
     IN  /\ rawAdj' = out.rawAdj
         /\ adj' = out.adj
         /\ nodes' = out.nodes
         /\ links' = out.links
         /\ layers' = out.layers
  /\ pc' = "layout"
  /\ units' = SortLayers(units)
  /\ UNCHANGED <<relations, customOffsets, customPorts, polylines, routes>>
  /\ UNCHANGED <<rankVars, canvasVars>>

\* const autoLayout = calculateLayout(units, relations, 1000, 800)
CalculateLayout ==
  /\ pc = "input"
  /\ LET out == calculateLayout(units, relations)
     IN  /\ rawAdj' = out.rawAdj
         /\ adj' = out.adj
         /\ nodes' = out.nodes
         /\ links' = out.links
         /\ layers' = out.layers
  /\ pc' = "layout"
  /\ UNCHANGED <<units, relations, customOffsets, customPorts, polylines, routes>>
  /\ UNCHANGED <<rankVars, canvasVars>>

\* const routes = calculateRoutes(nodes, links, linkSegmentOffsets, linkPorts)
CalculateRoutes ==
  /\ pc = "layout"
  /\ polylines' = Polylines(nodes, links, customOffsets, customPorts)
  /\ routes' = calculateRoutes(nodes, links, customOffsets, customPorts)
  /\ pc' = "routed"
  /\ UNCHANGED <<units, relations, rawAdj, adj, nodes, links, layers,
                 customOffsets, customPorts>>
  /\ UNCHANGED <<rankVars, canvasVars>>

Next == CalculateLayout \/ CalculateRoutes

Spec == Init /\ [][Next]_vars

-----------------------------------------------------------------------------
(* Vocabulary of the properties.                                           *)

Laid == pc \in {"layout", "routed"}

EdgeSet(a) == UNION {{<<u, a[u][i]>> : i \in DOMAIN a[u]} : u \in DOMAIN a}

LinkEdges == {<<links[i].source, links[i].target>> : i \in DOMAIN links}

NodeOf(id) == NodeById(nodes, id)

ChildrenOfSet(a, S) == UNION {Range(a[u]) : u \in S}

RECURSIVE Grow(_, _)
Grow(a, D) ==
  LET D2 == D \cup ChildrenOfSet(a, D)
  IN  IF D2 = D THEN D ELSE Grow(a, D2)

\* the nodes reached from u by a path of at least one edge
Descendants(a, u) == Grow(a, Range(a[u]))

Acyclic(a) == \A u \in DOMAIN a : u \notin Descendants(a, u)

LayerIds == {units[i].id : i \in {k \in DOMAIN units : units[k].type = LAYER}}

\* weight of an edge as the rank contract states it
ContractWeight(p, c) ==
  IF p \in LayerIds /\ c \in LayerIds /\ (Range(rawAdj[p]) \ LayerIds) # {}
  THEN 2 ELSE 1

RankMonotone ==
  \A i \in DOMAIN links :
     NodeOf(links[i].target).rank
       >= NodeOf(links[i].source).rank + ContractWeight(links[i].source, links[i].target)

-----------------------------------------------------------------------------
\* C1 (as stated): after calculateLayout every emitted link p -> c has
\* rank(c) >= rank(p) + weight(p, c), for every input, cyclic ones included.
C1_RankMonotoneEveryInput == Laid => RankMonotone

\* C1 (amended): after calculateLayout every emitted link p -> c has
\* rank(c) >= rank(p) + weight(p, c) whenever the emitted links (the reduced
\* adjacency) contain no cycle.
C1_RankMonotoneAcyclic == (Laid /\ Acyclic(adj)) => RankMonotone

\* an acyclic layout with a weight-2 layer edge and a feature below a layer
C1_Witness ==
  /\ Laid /\ Acyclic(adj)
  /\ \E i \in DOMAIN links :
        ContractWeight(links[i].source, links[i].target) = 2
  /\ \E i \in DOMAIN links : links[i].target \notin LayerIds

-----------------------------------------------------------------------------
ExplicitEdges ==
  {<<relations[i].sourceId, relations[i].targetId>> :
     i \in {k \in DOMAIN relations :
              relations[k].sourceId \in UnitIds(units) /\ relations[k].targetId \in UnitIds(units)}}

OpeningEdges ==
  {<<units[i].openingLayerId, units[i].id>> :
     i \in {k \in DOMAIN units : units[k].openingLayerId \in UnitIds(units)}}

\* a layer is chained to the layer that follows it in sort-value order
ChainEdges ==
  {e \in LayerIds \X LayerIds :
     /\ getLayerSortValue(e[1]) < getLayerSortValue(e[2])
     /\ \A m \in LayerIds : ~(/\ getLayerSortValue(e[1]) < getLayerSortValue(m)
                              /\ getLayerSortValue(m) < getLayerSortValue(e[2]))}

\* C4: the raw adjacency is exactly the union of the explicit edges between
\* known units, the opening-layer edges to known units and the layer-chain
\* edges, each edge stored once; unknown ids add nothing.
C4_RawAdjIsUnion ==
  Laid =>
    /\ DOMAIN rawAdj = UnitIds(units)
    /\ EdgeSet(rawAdj) = ExplicitEdges \cup OpeningEdges \cup ChainEdges
    /\ \A u \in DOMAIN rawAdj : Injective(rawAdj[u])

\* an edge implied twice next to a relation or an opening layer naming an unknown id
C4_Witness ==
  /\ Laid
  /\ \/ \E i \in DOMAIN relations : relations[i].sourceId \notin UnitIds(units)
     \/ \E i \in DOMAIN units :
           units[i].openingLayerId # NoId /\ units[i].openingLayerId \notin UnitIds(units)
  /\ ExplicitEdges # {}
  /\ \/ \E i, k \in DOMAIN relations :
           /\ i # k /\ relations[i].sourceId = relations[k].sourceId
           /\ relations[i].targetId = relations[k].targetId
           /\ relations[i].targetId \in UnitIds(units)
     \/ ExplicitEdges \cap (OpeningEdges \cup ChainEdges) # {}

-----------------------------------------------------------------------------
\* (numeric part, suffix letter) of a layer id, the order the layer chain follows
NumericPart(id) == ParseInt(SubSeq(id, 1, DigitPrefixLen(id)))

SuffixLetter(id) ==
  IF DigitPrefixLen(id) = Len(id) THEN 0 ELSE IndexOf(LowerLetters, id[DigitPrefixLen(id) + 1])

LayerBefore(a, b) ==
  \/ NumericPart(a) < NumericPart(b)
  \/ NumericPart(a) = NumericPart(b) /\ SuffixLetter(a) < SuffixLetter(b)

\* C5: whatever the order of the unit list, the chain edges join each LAYER
\* to the next LAYER in ascending (numeric part, suffix letter) order; for
\* layers 1, 2, 2a, 3 without relations the chain is 1->2, 2->2a, 2a->3.
C5_LayerChain ==
  (Laid /\ relations = <<>> /\ \A i \in DOMAIN units : units[i].openingLayerId = NoId) =>
    /\ EdgeSet(rawAdj) =
         {e \in LayerIds \X LayerIds :
            /\ LayerBefore(e[1], e[2])
            /\ \A m \in LayerIds : ~(LayerBefore(e[1], m) /\ LayerBefore(m, e[2]))}
    /\ UnitIds(units) = {id1, id2, id2a, id3} /\ LayerIds = UnitIds(units)
         => EdgeSet(rawAdj) = {<<id1, id2>>, <<id2, id2a>>, <<id2a, id3>>}

\* layers 3, 2a, 1, 2 given in that order are chained 1->2->2a->3
C5_Witness ==
  /\ Laid
  /\ IdSeq(units) = <<id3, id2a, id1, id2>>
  /\ rawAdj[id1] = <<id2>> /\ rawAdj[id2] = <<id2a>> /\ rawAdj[id2a] = <<id3>>

-----------------------------------------------------------------------------
\* the end-to-end scenario: layer 1; H1 and H2 opened in layer 1; H1 CUTS H2
ScenarioUnits == <<Unit(id1, LAYER, NoId), Unit(H1, ASH_PIT, id1), Unit(H2, ASH_PIT, id1)>>

ScenarioRelations == <<Relation(RelId(1), H1, H2, CUTS)>>

Scenario == Laid /\ units = ScenarioUnits /\ relations = ScenarioRelations

\* C6 (as stated): in the scenario rank(1) = 0, rank(H1) = rank(H2) = 1 and
\* the links are exactly H1->H2, 1->H1 and 1->H2.
C6_ScenarioThreeLinks ==
  Scenario =>
    /\ NodeOf(id1).rank = 0 /\ NodeOf(H1).rank = 1 /\ NodeOf(H2).rank = 1
    /\ Len(links) = 3
    /\ LinkEdges = {<<H1, H2>>, <<id1, H1>>, <<id1, H2>>}

\* C6 (amended): in the scenario rank(1) = 0, rank(H1) = 1, rank(H2) = 2 and
\* the links are exactly 1->H1 and H1->H2; the edge 1->H2 is removed by the
\* reduction because of the path 1->H1->H2.
C6_ScenarioTwoLinks ==
  Scenario =>
    /\ NodeOf(id1).rank = 0 /\ NodeOf(H1).rank = 1 /\ NodeOf(H2).rank = 2
    /\ Len(links) = 2
    /\ LinkEdges = {<<id1, H1>>, <<H1, H2>>}
    /\ <<id1, H2>> \in EdgeSet(rawAdj)

C6_Witness == Scenario /\ pc = "layout" /\ Len(nodes) = 3

-----------------------------------------------------------------------------
\* C7 (as stated): in the scenario H1 and H2 lie on opposite sides of the
\* canvas midline.
C7_OppositeSides ==
  Scenario =>
    \/ NodeOf(H1).x < canvasCenterX /\ NodeOf(H2).x > canvasCenterX
    \/ NodeOf(H1).x > canvasCenterX /\ NodeOf(H2).x < canvasCenterX

\* C7 (amended): in the scenario H1, the only child left to layer 1 after the
\* reduction, lies on the midline and H2 lies left of it, in the first column.
C7_CentreAndLeft ==
  Scenario =>
    /\ NodeOf(H1).x = canvasCenterX
    /\ NodeOf(H2).x = canvasCenterX - X_SPACING

C7_Witness == Scenario /\ pc = "routed" /\ NodeOf(H2).y > NodeOf(H1).y

-----------------------------------------------------------------------------
ParentSet(n) == {p \in DOMAIN adj : Includes(adj[p], n)}

\* a LAYER with exactly one non-LAYER child and no LAYER child
SingleFeatureLayer(p) ==
  /\ p \in LayerIds
  /\ Cardinality(Range(adj[p]) \ LayerIds) = 1
  /\ Range(adj[p]) \cap LayerIds = {}

FeatureIds == UnitIds(units) \ LayerIds

\* C9 (as stated): a non-LAYER node is on the midline exactly when it has
\* exactly one parent and that parent is a LAYER with exactly one non-LAYER
\* child and no LAYER child.
C9_CentredIffOnlyParent ==
  Laid =>
    \A n \in FeatureIds :
       NodeOf(n).x = canvasCenterX
         <=> (Cardinality(ParentSet(n)) = 1 /\ \A p \in ParentSet(n) : SingleFeatureLayer(p))

\* C9 (amended): a non-LAYER node is on the midline exactly when one of its
\* parents is a LAYER with exactly one non-LAYER child and no LAYER child,
\* whatever other parents the node has.
C9_CentredIffSomeParent ==
  Laid =>
    \A n \in FeatureIds :
       NodeOf(n).x = canvasCenterX <=> \E p \in ParentSet(n) : SingleFeatureLayer(p)

\* a centred feature with a second parent, next to features that are not centred
C9_Witness ==
  /\ Laid
  /\ \E n \in FeatureIds :
        /\ NodeOf(n).x = canvasCenterX
        /\ Cardinality(ParentSet(n)) = 2
  /\ \E n \in FeatureIds : NodeOf(n).x # canvasCenterX

-----------------------------------------------------------------------------
(* performTransitiveReduction on its own: any adjacency over a few nodes,  *)
(* cycles and self-loops included, built edge by edge as addEdge builds    *)
(* it, and the chain A->B->C->D with its shortcut edges.                   *)

MaxNodes == 3      \* nodes of the adjacencies given to the reduction
MaxEdges == 3      \* longest edge list of the adjacencies given to the reduction

NodePool == <<H1, H2, M1, M2, M3>>

NodeUnits(n) == [i \in 1..n |-> Unit(NodePool[i], ASH_PIT, NoId)]

ChainEdgeSet == {<<H1, H2>>, <<H2, M1>>, <<M1, M2>>}

ShortcutEdgeSet == {<<H1, M1>>, <<H1, M2>>, <<H2, M2>>}

OrderingsOf(s) ==
  {[i \in DOMAIN s |-> s[f[i]]] : f \in {g \in [DOMAIN s -> DOMAIN s] : Injective(g)}}

AllPairs(ids) == ids \X ids

GraphInput ==
  /\ units = NodeUnits(Min(MaxNodes, Len(NodePool)))
  /\ RelationsFrom(AllPairs(UnitIds(units)), MaxEdges)

\* the four chain nodes in any order; any edge list without repetition that
\* holds the whole chain and some of the shortcuts
ChainInput ==
  /\ units \in OrderingsOf(NodeUnits(4))
  /\ \E k \in 3..6 :
       \E e \in [1..k -> ChainEdgeSet \cup ShortcutEdgeSet] :
         /\ Injective(e)
         /\ ChainEdgeSet \subseteq Range(e)
         /\ relations = [i \in 1..k |-> Relation(RelId(i), e[i][1], e[i][2], CUTS)]

InitTR ==
  /\ pc = "raw"
  /\ GraphInput \/ ChainInput
  /\ rawAdj = BuildRawAdj(units, relations)
  /\ adj = NoMap /\ nodes = <<>> /\ links = <<>> /\ layers = 0
  /\ customOffsets = NoMap /\ customPorts = NoMap
  /\ polylines = <<>> /\ routes = <<>>
  /\ CanvasUnset
  /\ memo = NoMap /\ visited = {} /\ stack = <<>> /\ todo = <<>> /\ retval = 0

\* const adj = performTransitiveReduction(allNodeIds, rawAdj)
Reduce ==
  /\ pc = "raw"
  /\ adj' = performTransitiveReduction(IdSeq(units), rawAdj)
  /\ pc' = "reduced"
  /\ UNCHANGED <<units, relations, rawAdj, nodes, links, layers,
                 customOffsets, customPorts, polylines, routes>>
  /\ UNCHANGED <<rankVars, canvasVars>>

SpecTR == InitTR /\ [][Reduce]_vars

\* a path of two or more edges from a to b that does not start with the edge a -> b
LongPath(g, a, b) ==
  \E m \in Range(g[a]) : m # b /\ (b \in Descendants(g, m))

\* C3: in the reduced adjacency no direct edge A -> B coexists with a path
\* from A to B of two or more edges, and the chain A->B->C->D given with any
\* of its shortcuts A->C, A->D, B->D reduces to exactly the chain.
C3_NoRedundantEdge ==
  pc = "reduced" =>
    /\ \A e \in EdgeSet(adj) : ~LongPath(adj, e[1], e[2])
    /\ (ChainEdgeSet \subseteq EdgeSet(rawAdj)
          /\ EdgeSet(rawAdj) \subseteq ChainEdgeSet \cup ShortcutEdgeSet)
         => EdgeSet(adj) = ChainEdgeSet

\* the chain with all three shortcuts, reduced to the chain
C3_Witness ==
  /\ pc = "reduced"
  /\ EdgeSet(rawAdj) = ChainEdgeSet \cup ShortcutEdgeSet
  /\ EdgeSet(adj) = ChainEdgeSet

-----------------------------------------------------------------------------
(* calcRank step by step (lines 153-183): the call stack of the recursion, *)
(* the visited set of the running top-level call and the memo map.  A      *)
(* frame is at "entry" before the guards of lines 154-155 are evaluated    *)
(* and in "loop" while it walks its parents (lines 170-174).               *)

InitRank ==
  /\ pc = "rank"
  /\ GeneralInput
  /\ rawAdj = BuildRawAdj(units, relations)
  /\ adj = performTransitiveReduction(IdSeq(units), rawAdj)
  /\ nodes = [i \in DOMAIN units |->
                [id |-> units[i].id, type |-> units[i].type,
                 openingLayerId |-> units[i].openingLayerId,
                 rank |-> 0, x |-> 0, y |-> 0]]
  /\ links = <<>> /\ layers = 0
  /\ customOffsets = NoMap /\ customPorts = NoMap
  /\ polylines = <<>> /\ routes = <<>>
  /\ CanvasUnset
  /\ memo = NoMap /\ visited = {} /\ stack = <<>> /\ retval = 0
  /\ todo = IdSeq(units)

Top == stack[Len(stack)]

EntryFrame(nodeId) ==
  [node |-> nodeId, state |-> "entry", parents |-> <<>>, px |-> 0, max |-> 0]

AtEntry == pc = "rank" /\ stack # <<>> /\ Top.state = "entry"

InLoop == pc = "rank" /\ stack # <<>> /\ Top.state = "loop"

rankFrame == <<units, relations, rawAdj, adj, links, layers,
               customOffsets, customPorts, polylines, routes>>

\* the top frame returns v: to the parents loop of its caller (line 172-173),
\* or to units.forEach, which stores the rank in the node (line 182)
Return(v) ==
  LET rest == SubSeq(stack, 1, Len(stack) - 1)
  IN  /\ retval' = v
      /\ IF rest = <<>>
         THEN /\ stack' = <<>>
              /\ nodes' = [i \in DOMAIN nodes |->
                             IF nodes[i].id = Head(todo)
                             THEN [nodes[i] EXCEPT !.rank = v] ELSE nodes[i]]
              /\ todo' = Tail(todo)
         ELSE LET caller == rest[Len(rest)]
                  w == getEdgeWeight(units, rawAdj, caller.parents[caller.px], caller.node)
              IN  /\ stack' = [rest EXCEPT ![Len(rest)] =
                                 [caller EXCEPT !.max = Max(caller.max, v + w),
                                                !.px = caller.px + 1]]
                  /\ UNCHANGED <<nodes, todo>>

\* units.forEach(u => ... calcRank(u.id, new Set()))
RankUnit ==
  /\ pc = "rank" /\ stack = <<>> /\ todo # <<>>
  /\ stack' = <<EntryFrame(Head(todo))>>
  /\ visited' = {}
  /\ UNCHANGED <<pc, memo, nodes, todo, retval>>
  /\ UNCHANGED <<rankFrame, canvasVars>>

\* the visited guard returning one rank instead of none
ReEnteredOneDeep ==
  /\ AtEntry /\ OnPath(Top.node, visited)
  /\ Return(ReEntryRank + 1)
  /\ UNCHANGED <<pc, memo, visited>>
  /\ UNCHANGED <<rankFrame, canvasVars>>

\* line 154
ReEntered ==
  /\ AtEntry /\ OnPath(Top.node, visited)
  /\ Return(ReEntryRank)
  /\ UNCHANGED <<pc, memo, visited>>
  /\ UNCHANGED <<rankFrame, canvasVars>>

\* line 155
Memoized ==
  /\ AtEntry /\ ~OnPath(Top.node, visited) /\ Top.node \in DOMAIN memo
  /\ Return(memo[Top.node])
  /\ UNCHANGED <<pc, memo, visited>>
  /\ UNCHANGED <<rankFrame, canvasVars>>

\* lines 156-167: no parents
RootNode ==
  /\ AtEntry /\ ~OnPath(Top.node, visited) /\ Top.node \notin DOMAIN memo
  /\ ParentsOf(IdSeq(units), adj, Top.node) = <<>>
  /\ memo' = (Top.node :> 0) @@ memo
  /\ visited' = (visited \cup {Top.node}) \ {Top.node}
  /\ Return(0)
  /\ UNCHANGED pc
  /\ UNCHANGED <<rankFrame, canvasVars>>

\* lines 156-169: start the loop over the parents
EnterNode ==
  /\ AtEntry /\ ~OnPath(Top.node, visited) /\ Top.node \notin DOMAIN memo
  /\ ParentsOf(IdSeq(units), adj, Top.node) # <<>>
  /\ visited' = visited \cup {Top.node}
  /\ stack' = [stack EXCEPT ![Len(stack)] =
                 [node |-> Top.node, state |-> "loop",
                  parents |-> ParentsOf(IdSeq(units), adj, Top.node),
                  px |-> 1, max |-> 0]]
  /\ UNCHANGED <<pc, memo, nodes, todo, retval>>
  /\ UNCHANGED <<rankFrame, canvasVars>>

\* line 172: calcRank(p, visited)
CallParent ==
  /\ InLoop /\ Top.px <= Len(Top.parents)
  /\ stack' = Append(stack, EntryFrame(Top.parents[Top.px]))
  /\ UNCHANGED <<pc, memo, visited, nodes, todo, retval>>
  /\ UNCHANGED <<rankFrame, canvasVars>>

\* lines 176-178
FinishNode ==
  /\ InLoop /\ Top.px > Len(Top.parents)
  /\ memo' = (Top.node :> Top.max) @@ memo
  /\ visited' = visited \ {Top.node}
  /\ Return(Top.max)
  /\ UNCHANGED pc
  /\ UNCHANGED <<rankFrame, canvasVars>>

\* units.forEach has gone through every unit
RankDone ==
  /\ pc = "rank" /\ stack = <<>> /\ todo = <<>>
  /\ pc' = "ranked"
  /\ UNCHANGED <<memo, visited, stack, nodes, todo, retval>>
  /\ UNCHANGED <<rankFrame, canvasVars>>

NextRank ==
  \/ RankUnit \/ ReEntered \/ Memoized \/ RootNode
  \/ EnterNode \/ CallParent \/ FinishNode \/ RankDone

SpecRank == InitRank /\ [][NextRank]_vars

\* the engine is synchronous and single-threaded: a call that can take a step takes it
SpecRankFair == SpecRank /\ WF_vars(NextRank)

\* the step-by-step ranking computes the ranks of AssignRanks
StepwiseAgrees ==
  pc = "ranked" =>
    \A i \in DOMAIN nodes : nodes[i].rank = AssignRanks(units, rawAdj, adj)[nodes[i].id]

\* C2: ranking terminates for every input, cycles and self-relations
\* included, every unit gets a non-negative integer rank, and a node
\* entered again while it is on the running computation path returns 0
\* without recursing (the stack never holds more frames than units + 1).
C2_RankTerminates ==
  /\ <>(pc = "ranked")
  /\ [](pc = "ranked" => \A i \in DOMAIN nodes : nodes[i].rank \in Nat)
  /\ [](Len(stack) <= Len(units) + 1)
  /\ [][(AtEntry /\ Top.node \in visited)
          => (retval' = 0 /\ Len(stack') = Len(stack) - 1 /\ memo' = memo)]_vars

\* a node of a cycle is entered again while it is on the computation path
C2_Witness ==
  /\ AtEntry /\ Top.node \in visited
  /\ Len(stack) >= 3
  /\ ~Acyclic(adj)

-----------------------------------------------------------------------------
(* calculateRoutes on its own: one link between two nodes placed anywhere  *)
(* (MatrixCanvas merges manual positions into the nodes), with any port    *)
(* override and any segment offset.                                        *)

SourceAt == Pt(500 * PX, 240 * PX)

TargetXs == {320 * PX, 410 * PX, 470 * PX, 500 * PX, 530 * PX, 590 * PX, 680 * PX}

TargetYs == {160 * PX, 240 * PX, 320 * PX}

\* offsets as a drag leaves them: on a pixel or a twentieth of a pixel off it
OffsetPool == {274 * PX, 274 * PX + 1, 450 * PX + 1, 300 * PX}

PortChoices == Sides \cup {NoSide}

RouteNode(id, type, p) ==
  [id |-> id, type |-> type, openingLayerId |-> NoId, rank |-> 0, x |-> p.x, y |-> p.y]

TheLink == <<"l", "1">>

InitRoutes ==
  /\ pc = "layout"
  /\ units = <<>> /\ relations = <<>> /\ rawAdj = NoMap /\ adj = NoMap /\ layers = 0
  /\ \E st \in {LAYER, ASH_PIT}, tt \in {LAYER, ASH_PIT}, tx \in TargetXs, ty \in TargetYs :
       nodes = <<RouteNode(H1, st, SourceAt), RouteNode(H2, tt, Pt(tx, ty))>>
  /\ \E lt \in {CUTS, OVERLAYS} :
       links = <<[id |-> TheLink, source |-> H1, target |-> H2, type |-> lt]>>
  /\ \E ss \in PortChoices, ts \in PortChoices :
       customPorts = IF ss = NoSide /\ ts = NoSide THEN NoMap
                     ELSE (TheLink :> [sourceSide |-> ss, targetSide |-> ts])
  /\ \/ customOffsets = NoMap
     \/ \E o \in OffsetPool : customOffsets = (TheLink :> o)
  /\ polylines = <<>> /\ routes = <<>>
  /\ CanvasUnset
  /\ memo = NoMap /\ visited = {} /\ stack = <<>> /\ todo = <<>> /\ retval = 0

SpecRoutes == InitRoutes /\ [][CalculateRoutes]_vars

Routed == pc = "routed"

\* the side a link leaves (which = "source") or enters (which = "target") by
ChosenSide(link, which) ==
  LET config == IF link.id \in DOMAIN customPorts THEN customPorts[link.id] ELSE NoPorts
      dflt == DefaultSides(NodeOf(link.source), NodeOf(link.target), link.type, nodes)
  IN  IF which = "source"
      THEN (IF config.sourceSide # NoSide THEN config.sourceSide ELSE dflt.source)
      ELSE (IF config.targetSide # NoSide THEN config.targetSide ELSE dflt.target)

AxisAligned(poly) ==
  \A k \in 1..(Len(poly) - 1) :
     (poly[k].x = poly[k + 1].x) # (poly[k].y = poly[k + 1].y)

\* C10: every polyline is axis-aligned (consecutive points differ in exactly
\* one coordinate), starts at the anchor of the chosen source side and ends
\* at the anchor of the chosen target side, for all 16 side combinations
\* and any customOffsets value.
C10_AxisAlignedPolyline ==
  Routed =>
    \A i \in DOMAIN links :
       /\ AxisAligned(polylines[i])
       /\ polylines[i][1] = Anchor(NodeOf(links[i].source), ChosenSide(links[i], "source"))
       /\ polylines[i][Len(polylines[i])]
            = Anchor(NodeOf(links[i].target), ChosenSide(links[i], "target"))

\* the same for offsets that lie on whole pixels
C10_AxisAlignedWholePixels ==
  (Routed /\ \A id \in DOMAIN customOffsets : customOffsets[id] % PX = 0)
     => \A i \in DOMAIN links : AxisAligned(polylines[i])

-----------------------------------------------------------------------------
\* what a run of the pipeline shows of a unit and of a link
PlacedNodes(ns) == {<<ns[i].id, ns[i].rank, ns[i].x, ns[i].y>> : i \in DOMAIN ns}

RoutedLinks(ls, rts) == {<<ls[i].source, ls[i].target, rts[i].path>> : i \in DOMAIN ls}

SameOutcome(us, rs) ==
  LET out == calculateLayout(us, rs)
  IN  /\ PlacedNodes(out.nodes) = PlacedNodes(nodes)
      /\ RoutedLinks(out.links, calculateRoutes(out.nodes, out.links, NoMap, NoMap))
           = RoutedLinks(links, routes)

\* C8: calculateLayout + calculateRoutes depend only on the set of units
\* and the set of relations: every reordering of the unit list and of the
\* relation list gives each unit the same rank, x and y and each link the
\* same path.
C8_OrderIndependent ==
  (Routed /\ units # <<>>) =>
    \A us \in OrderingsOf(units), rs \in OrderingsOf(relations) : SameOutcome(us, rs)

-----------------------------------------------------------------------------
\* C13: calculateLayout completes for every well-typed input, the empty
\* unit list included, and every number it returns (each node's rank, x and
\* y and the tier count layers) is finite.
C13_FiniteNumbers ==
  Laid =>
    /\ layers \in Nat
    /\ \A i \in DOMAIN nodes :
         nodes[i].rank \in Nat /\ nodes[i].x \in Nat /\ nodes[i].y \in Nat

-----------------------------------------------------------------------------
MaxOf(S) == CHOOSE m \in S : \A k \in S : k <= m

MinOf(S) == CHOOSE m \in S : \A k \in S : m <= k

\* rank(n) is 0 without a parent and else the largest rank(p) + weight(p, n)
LongestPathRanks(ns) ==
  \A i \in DOMAIN ns :
     ns[i].rank = IF ParentSet(ns[i].id) = {} THEN 0
                  ELSE MaxOf({NodeById(ns, p).rank + ContractWeight(p, ns[i].id)
                                : p \in ParentSet(ns[i].id)})

\* C15: when the reduced adjacency is acyclic, rank(n) = 0 for a node with
\* no incoming retained edge and otherwise the maximum over its parents p of
\* rank(p) + weight(p, n), with weight 2 exactly for a LAYER -> LAYER edge
\* whose parent layer has a non-LAYER child; ranking the units in any other
\* order gives every unit the same rank.
C15_LongestWeightedPath ==
  (Laid /\ Acyclic(adj)) =>
    /\ LongestPathRanks(nodes)
    /\ \A us \in OrderingsOf(units) :
         LET ranks == AssignRanks(us, rawAdj, adj)
         IN  \A i \in DOMAIN nodes : ranks[nodes[i].id] = nodes[i].rank

\* an acyclic layout of three units where a node has two parents and a
\* chain of two retained edges ends in rank 2 or more
C15_Witness ==
  /\ Laid /\ Acyclic(adj) /\ Len(units) = 3
  /\ \/ \E n \in UnitIds(units) : Cardinality(ParentSet(n)) = 2
     \/ \E i \in DOMAIN nodes : nodes[i].rank >= 2 /\ nodes[i].type # LAYER

-----------------------------------------------------------------------------
\* C16: for every LAYER L joined to the next LAYER L2 by a retained
\* weight-2 edge, every non-LAYER unit dug into L (openingLayerId = L) has
\* rank(L) < rank(unit) < rank(L2).
C16_FeatureBand ==
  Laid =>
    \A e \in EdgeSet(adj) :
       (e[1] \in LayerIds /\ e[2] \in LayerIds /\ ContractWeight(e[1], e[2]) = 2) =>
          \A i \in DOMAIN nodes :
             (nodes[i].type # LAYER /\ nodes[i].openingLayerId = e[1]) =>
                /\ NodeOf(e[1]).rank < nodes[i].rank
                /\ nodes[i].rank < NodeOf(e[2]).rank

\* the band is left without any cycle in the input
C16_AcyclicFeatureBand == (Laid /\ Acyclic(rawAdj)) => C16_FeatureBand

-----------------------------------------------------------------------------
\* a non-LAYER node without parents, alone in its tier and not centred
LoneRoot(n) ==
  /\ n.type # LAYER
  /\ ParentSet(n.id) = {}
  /\ \A j \in DOMAIN nodes : nodes[j].rank = n.rank => nodes[j].id = n.id
  /\ n.x # canvasCenterX

\* C18 (as stated): a non-LAYER node that has no parents, is alone in its
\* rank tier and is not centred by the single-child rule is placed on the
\* right of the midline (x > width / 2).
C18_LoneRootGoesRight ==
  Laid => \A i \in DOMAIN nodes : LoneRoot(nodes[i]) => nodes[i].x > canvasCenterX

\* C18 (amended): such a node is placed on the left of the midline, one
\* X_SPACING from it (x = width / 2 - X_SPACING).
C18_LoneRootGoesLeft ==
  Laid => \A i \in DOMAIN nodes : LoneRoot(nodes[i]) => nodes[i].x = canvasCenterX - X_SPACING

\* a lone root above other units
C18_Witness ==
  /\ Laid /\ Len(units) >= 2
  /\ \E i \in DOMAIN nodes : LoneRoot(nodes[i])

-----------------------------------------------------------------------------
\* the stub endpoint of a link on its source or target side
StubOf(link, which) ==
  LET n == IF which = "source" THEN NodeOf(link.source) ELSE NodeOf(link.target)
      sd == ChosenSide(link, which)
  IN  Stub(Anchor(n, sd), sd)

HasOffset(link) == link.id \in DOMAIN customOffsets

\* C19 (as stated): the controlPoint of a VerticalStack or SideBracket route
\* is the customOffsets value of the link when one is present and otherwise
\* the midpoint of the two stub endpoints on the relevant axis.
C19_ControlPointMidpoint ==
  Routed =>
    \A i \in DOMAIN links :
       LET exitPt == StubOf(links[i], "source")
           entryPt == StubOf(links[i], "target")
       IN  /\ routes[i].routeType = "VerticalStack" =>
                IF HasOffset(links[i])
                THEN routes[i].controlPoint = customOffsets[links[i].id]
                ELSE 2 * routes[i].controlPoint = exitPt.y + entryPt.y
           /\ routes[i].routeType = "SideBracket" =>
                IF HasOffset(links[i])
                THEN routes[i].controlPoint = customOffsets[links[i].id]
                ELSE 2 * routes[i].controlPoint = exitPt.x + entryPt.x

\* C19 (amended): the controlPoint is the customOffsets value of the link
\* when one is present; otherwise it is the midpoint of the two stub
\* endpoints' y for a VerticalStack route, and for a SideBracket route 20 px
\* beyond both stub endpoints: min(x) - 20 when the source side is left,
\* max(x) + 20 when it is right.
C19_ControlPointBracket ==
  Routed =>
    \A i \in DOMAIN links :
       LET exitPt == StubOf(links[i], "source")
           entryPt == StubOf(links[i], "target")
       IN  /\ routes[i].routeType = "VerticalStack" =>
                IF HasOffset(links[i])
                THEN routes[i].controlPoint = customOffsets[links[i].id]
                ELSE 2 * routes[i].controlPoint = exitPt.y + entryPt.y
           /\ routes[i].routeType = "SideBracket" =>
                IF HasOffset(links[i])
                THEN routes[i].controlPoint = customOffsets[links[i].id]
                ELSE IF ChosenSide(links[i], "source") = "left"
                THEN routes[i].controlPoint = Min(exitPt.x, entryPt.x) - 20 * PX
                ELSE routes[i].controlPoint = Max(exitPt.x, entryPt.x) + 20 * PX

\* a SideBracket route without an offset whose stubs are apart
C19_Witness ==
  /\ Routed /\ customOffsets = NoMap
  /\ \E i \in DOMAIN links :
       /\ routes[i].routeType = "SideBracket"
       /\ StubOf(links[i], "source").x # StubOf(links[i], "target").x

-----------------------------------------------------------------------------
\* no port override, and not a CUTS link between vertically aligned nodes
DefaultCase(link) ==
  /\ link.id \notin DOMAIN customPorts
  /\ ~(link.type = CUTS /\ Abs(NodeOf(link.target).x - NodeOf(link.source).x) < 40 * PX)

FarApart(link) == Abs(NodeOf(link.target).x - NodeOf(link.source).x) > 100 * PX

Sideways(sd) == sd = "left" \/ sd = "right"

\* C20 (as stated): with no port override and outside the aligned-CUTS
\* case, a link whose target lies strictly below its source leaves by
\* bottom and enters by top; left and right are used only when the target
\* is not strictly below the source and the nodes are horizontally far apart.
C20_BelowMeansBottomTop ==
  Routed =>
    \A i \in DOMAIN links :
       DefaultCase(links[i]) =>
          LET s == NodeOf(links[i].source)
              t == NodeOf(links[i].target)
              sSide == ChosenSide(links[i], "source")
              tSide == ChosenSide(links[i], "target")
          IN  /\ t.y > s.y => (sSide = "bottom" /\ tSide = "top")
              /\ (Sideways(sSide) \/ Sideways(tSide)) => (~(t.y > s.y) /\ FarApart(links[i]))

\* C20 (amended): with no port override and outside the aligned-CUTS case,
\* the source side is bottom for a LAYER source, else top when the target
\* is above the source, else the side facing the target when the nodes are
\* more than 100 px apart horizontally, else bottom; the target side is
\* bottom when the source is more than 30 px below the target, else the
\* side facing the source when the nodes are more than 100 px apart, else
\* top.  So a target strictly below gives bottom -> top only when the nodes
\* are not far apart.
C20_DefaultSideRule ==
  Routed =>
    \A i \in DOMAIN links :
       DefaultCase(links[i]) =>
          LET s == NodeOf(links[i].source)
              t == NodeOf(links[i].target)
              sSide == ChosenSide(links[i], "source")
              tSide == ChosenSide(links[i], "target")
              right == t.x > s.x
          IN  /\ sSide = (IF s.type = LAYER THEN "bottom"
                          ELSE IF t.y < s.y THEN "top"
                          ELSE IF FarApart(links[i]) THEN (IF right THEN "right" ELSE "left")
                          ELSE "bottom")
              /\ tSide = (IF s.y > t.y + 30 * PX THEN "bottom"
                          ELSE IF FarApart(links[i]) THEN (IF right THEN "left" ELSE "right")
                          ELSE "top")
              /\ routes[i].routeType
                   = (IF IsVerticalSide(sSide) /\ IsVerticalSide(tSide) THEN "VerticalStack"
                      ELSE IF Sideways(sSide) /\ Sideways(tSide) THEN "SideBracket"
                      ELSE "Mixed")
              /\ (t.y > s.y /\ ~FarApart(links[i])) => (sSide = "bottom" /\ tSide = "top")

\* a feature whose target lies below it and far to the side: the link
\* leaves and enters sideways
C20_Witness ==
  /\ Routed
  /\ \E i \in DOMAIN links :
       /\ DefaultCase(links[i])
       /\ NodeOf(links[i].source).type # LAYER
       /\ NodeOf(links[i].target).y > NodeOf(links[i].source).y
       /\ FarApart(links[i])
       /\ routes[i].routeType = "SideBracket"

-----------------------------------------------------------------------------
(* Two links that cross.  Link "l2" runs straight down from H1 to H2 at    *)
(* x = 500; link "l1" runs from M1 on the left of it to M2 on the right,   *)
(* so one of its horizontal segments passes through x = 500.               *)

CrossXs == {320 * PX, 410 * PX}

CrossYs == {160 * PX, 240 * PX}

OtherLink == <<"l", "2">>

CrossPorts == {NoPorts,
               [sourceSide |-> "bottom", targetSide |-> "top"],
               [sourceSide |-> "right", targetSide |-> "left"]}

InitBridge ==
  /\ pc = "layout"
  /\ units = <<>> /\ relations = <<>> /\ rawAdj = NoMap /\ adj = NoMap /\ layers = 0
  /\ \E st \in {LAYER, ASH_PIT}, tt \in {LAYER, ASH_PIT},
        ax \in CrossXs, ay \in CrossYs, bx \in CrossXs, by \in CrossYs :
       nodes = <<RouteNode(H1, ASH_PIT, Pt(500 * PX, 80 * PX)),
                 RouteNode(H2, ASH_PIT, Pt(500 * PX, 440 * PX)),
                 RouteNode(M1, st, Pt(ax, ay)),
                 RouteNode(M2, tt, Pt(1000 * PX - bx, by + 80 * PX))>>
  /\ LET across == [id |-> TheLink, source |-> M1, target |-> M2, type |-> OVERLAYS]
         down == [id |-> OtherLink, source |-> H1, target |-> H2, type |-> CUTS]
     IN  links = <<across, down>> \/ links = <<down, across>>
  /\ \E cfg \in CrossPorts :
       customPorts = (OtherLink :> [sourceSide |-> "bottom", targetSide |-> "top"])
                       @@ (IF cfg = NoPorts THEN NoMap ELSE (TheLink :> cfg))
  /\ customOffsets = NoMap
  /\ polylines = <<>> /\ routes = <<>>
  /\ CanvasUnset
  /\ memo = NoMap /\ visited = {} /\ stack = <<>> /\ todo = <<>> /\ retval = 0

SpecBridge == InitBridge /\ [][CalculateRoutes]_vars

\* the point a drawing command ends at
EndPt(c) == Pt(c[Len(c) - 1], c[Len(c)])

IsHSeg(poly, k) == poly[k].y = poly[k + 1].y /\ poly[k].x # poly[k + 1].x

IsVertSeg(poly, k) == poly[k].x = poly[k + 1].x /\ poly[k].y # poly[k + 1].y

\* segment h of polyline ph and segment v of polyline pv cross in their interiors
CrossInside(ph, h, pv, v) ==
  /\ IsHSeg(ph, h) /\ IsVertSeg(pv, v)
  /\ Min(ph[h].x, ph[h + 1].x) < pv[v].x /\ pv[v].x < Max(ph[h].x, ph[h + 1].x)
  /\ Min(pv[v].y, pv[v + 1].y) < ph[h].y /\ ph[h].y < Max(pv[v].y, pv[v + 1].y)

\* the path holds an arc drawn along y = hy whose two ends are centred on vx
ArcAlongY(path, vx, hy) ==
  \E k \in 2..Len(path) :
     /\ path[k][1] = "A"
     /\ EndPt(path[k]).y = hy /\ EndPt(path[k - 1]).y = hy
     /\ EndPt(path[k]).x + EndPt(path[k - 1]).x = 2 * vx

\* the path holds an arc drawn along x = vx whose two ends are centred on hy
ArcAlongX(path, vx, hy) ==
  \E k \in 2..Len(path) :
     /\ path[k][1] = "A"
     /\ EndPt(path[k]).x = vx /\ EndPt(path[k - 1]).x = vx
     /\ EndPt(path[k]).y + EndPt(path[k - 1]).y = 2 * hy

HasArc(path) == \E k \in DOMAIN path : path[k][1] = "A"

\* C11: when a horizontal segment of one link and a vertical segment of a
\* different link cross in their interiors, the path of the link owning the
\* horizontal segment contains a bridge arc centred at the vertical
\* segment's x.
C11_BridgeOnHorizontal ==
  Routed =>
    \A i \in DOMAIN links, j \in DOMAIN links :
       i # j =>
         \A h \in 1..(Len(polylines[i]) - 1), v \in 1..(Len(polylines[j]) - 1) :
            CrossInside(polylines[i], h, polylines[j], v)
              => ArcAlongY(routes[i].path, polylines[j][v].x, polylines[i][h].y)

\* what calculateRoutes draws at such a crossing: the arc is on the link
\* owning the vertical segment, and the horizontal link is drawn straight
BridgeOnVerticalLink ==
  Routed =>
    \A i \in DOMAIN links, j \in DOMAIN links :
       i # j =>
         \A h \in 1..(Len(polylines[i]) - 1), v \in 1..(Len(polylines[j]) - 1) :
            CrossInside(polylines[i], h, polylines[j], v)
              => /\ ArcAlongX(routes[j].path, polylines[j][v].x, polylines[i][h].y)
                 /\ ~HasArc(routes[i].path)

-----------------------------------------------------------------------------
(* Both calls next to their inputs: calculateLayout on lists of layers and *)
(* on the two-layer input, calculateRoutes on a link with stored ports and *)
(* offsets.                                                                *)

InitFrame ==
  \/ /\ pc = "input"
     /\ LayerInput \/ BandInput
     /\ Idle
  \/ InitRoutes

NextFrame == CalculateLayout \/ CalculateRoutes

SpecFrame == InitFrame /\ [][NextFrame]_vars

\* C12: calculateLayout and calculateRoutes leave their inputs unchanged:
\* the unit list (order and fields) and the relation list over a
\* calculateLayout call, the node and link objects and the customOffsets
\* and customPorts maps over a calculateRoutes call.
C12_InputsUnchanged ==
  [][/\ pc = "input" => (units' = units /\ relations' = relations)
     /\ pc = "layout" => /\ nodes' = nodes /\ links' = links
                         /\ customOffsets' = customOffsets
                         /\ customPorts' = customPorts]_vars

\* a layout made from layers listed out of their sort order, the order
\* kept in the unit list
C12_Witness ==
  /\ pc = "layout" /\ Len(units) >= 2
  /\ \E i \in 1..(Len(units) - 1) : LayerLess(units[i + 1], units[i])
  /\ Len(nodes) = Len(units)

-----------------------------------------------------------------------------
(* Side assignment on two-tier inputs: up to MaxTops units without parents *)
(* ("1" is a layer, the others are features) above the two features M3 and *)
(* H3, with any set of relations from the upper units to the lower ones.   *)

MaxTops == 4       \* most units of the upper tier

H3 == <<"H", "3">>

TopPool == <<H1, H2, id1, M1, M2>>

BottomPool == <<M3, H3>>

RECURSIVE PoolUnits(_, _)
PoolUnits(pool, k) ==
  IF k = 0 THEN <<>>
  ELSE Append(PoolUnits(pool, k - 1), Unit(pool[k], KindOf(pool[k]), NoId))

\* the relations top t -> bottom b for the pairs <<t, b>> of E, in pair order
RECURSIVE PickRelations(_, _, _, _)
PickRelations(tops, bottoms, E, n) ==
  IF n > Len(tops) * Len(bottoms) THEN <<>>
  ELSE LET t == ((n - 1) \div Len(bottoms)) + 1
           b == ((n - 1) % Len(bottoms)) + 1
       IN  (IF <<t, b>> \in E
            THEN <<Relation(<<"r", Digits[t + 1], Digits[b + 1]>>,
                            tops[t].id, bottoms[b].id, CUTS)>>
            ELSE <<>>)
           \o PickRelations(tops, bottoms, E, n + 1)

InitSides ==
  /\ pc = "input"
  /\ \E k \in 1..Min(MaxTops, Len(TopPool)) :
       LET tops == PoolUnits(TopPool, k)
           bottoms == PoolUnits(BottomPool, Len(BottomPool))
       IN  /\ units = tops \o bottoms \/ units = bottoms \o tops
           /\ \E E \in SUBSET ((1..k) \X (1..Len(BottomPool))) :
                relations = PickRelations(tops, bottoms, E, 1)
  /\ Idle

SpecSides == InitSides /\ [][CalculateLayout]_vars

\* the side a node was given, read from where it stands
SideOfNode(n) ==
  IF n.x < canvasCenterX THEN "left"
  ELSE IF n.x > canvasCenterX THEN "right" ELSE "center"

\* the parents of nodes[i] that stand on side s
ParentsOn(i, s) == {p \in ParentSet(nodes[i].id) : SideOfNode(NodeOf(p)) = s}

\* the nodes of the tier of nodes[i] placed on side s before it
PlacedBefore(i, s) ==
  {j \in 1..(i - 1) : nodes[j].rank = nodes[i].rank /\ SideOfNode(nodes[j]) = s}

\* the side with fewer nodes placed in the tier, the left one when equal
FewerSide(i) ==
  IF Cardinality(PlacedBefore(i, "left")) <= Cardinality(PlacedBefore(i, "right"))
  THEN "left" ELSE "right"

\* a non-LAYER node that the centring rule left alone
Uncentred(i) == nodes[i].type # LAYER /\ SideOfNode(nodes[i]) # "center"

-----------------------------------------------------------------------------
(* The caller: the unit and relation lists of src/App.tsx and the handlers *)
(* that change them.  A handler reads `units` as its closure holds it: the *)
(* list as it was when the event was delivered, which inside one           *)
(* handleGraphOperations call is the list before the batch.  State updates *)
(* written with an updater function (setUnits(prev => ...)) apply to the   *)
(* list the earlier updates of the same event left.                        *)

MaxAppUnits == 3   \* longest unit list the handlers are let to build
MaxAppRels == 1    \* longest relation list the handlers are let to build
MaxOps == 2        \* longest list of operations in one handleGraphOperations call

AppIds == {id1, H1, H2}

AppUnitPool == {Unit(id1, LAYER, NoId), Unit(H1, ASH_PIT, id1), Unit(H2, ASH_PIT, id1)}

AppRelPool == {Relation(RelId(1), H1, H2, CUTS), Relation(RelId(2), id1, H2, CUTS)}

HasId(us, id) == \E i \in DOMAIN us : us[i].id = id

\* units.find(u => u.id === id), for a list that holds the id
FindUnit(us, id) == us[CHOOSE i \in DOMAIN us : us[i].id = id /\ \A j \in 1..(i - 1) : us[j].id # id]

\* addUnit: setUnits(prev => prev.some(u => u.id === unit.id) ? prev : [...prev, unit])
addUnit(us, unit) == IF HasId(us, unit.id) THEN us ELSE Append(us, unit)

\* removeUnit: the ids to remove, decided on the list of the closure
idsToRemove(closure, id) ==
  IF HasId(closure, id) /\ FindUnit(closure, id).openingLayerId # NoId
  THEN LET layerId == FindUnit(closure, id).openingLayerId
           hasSiblings == \E i \in DOMAIN closure :
                             closure[i].id # id /\ closure[i].openingLayerId = layerId
       IN  IF ~hasSiblings /\ HasId(closure, layerId) /\ FindUnit(closure, layerId).type = LAYER
           THEN {id, layerId} ELSE {id}
  ELSE {id}

\* the removal that drops only the relations leaving a removed unit
removeUnitSourceOnly(closure, us, rs, id) ==
  LET gone == idsToRemove(closure, id)
  IN  [units |-> SelectSeq(us, LAMBDA u : u.id \notin gone),
       relations |-> SelectSeq(rs, LAMBDA r : r.sourceId \notin gone)]

removeUnit(closure, us, rs, id) ==
  LET gone == idsToRemove(closure, id)
  IN  [units |-> SelectSeq(us, LAMBDA u : u.id \notin gone),
       relations |-> SelectSeq(rs, LAMBDA r : r.sourceId \notin gone /\ r.targetId \notin gone)]

addRelation(rs, relation) ==
  IF \E i \in DOMAIN rs : rs[i].sourceId = relation.sourceId /\ rs[i].targetId = relation.targetId
  THEN rs ELSE Append(rs, relation)

removeRelation(rs, rid) == SelectSeq(rs, LAMBDA r : r.id # rid)

handleUpdateUnit(us, rs, oldId, newUnit) ==
  LET replaced == [i \in DOMAIN us |-> IF us[i].id = oldId THEN newUnit ELSE us[i]]
  IN  IF oldId # newUnit.id
      THEN [units |-> [i \in DOMAIN us |->
                         IF replaced[i].openingLayerId = oldId
                         THEN [replaced[i] EXCEPT !.openingLayerId = newUnit.id]
                         ELSE replaced[i]],
            relations |-> [i \in DOMAIN rs |->
                             [rs[i] EXCEPT !.sourceId = IF @ = oldId THEN newUnit.id ELSE @,
                                           !.targetId = IF @ = oldId THEN newUnit.id ELSE @]]]
      ELSE [units |-> replaced, relations |-> rs]

handleBulkImport(us, rs, newUnits, newRelations) ==
  [units |-> us \o SelectSeq(newUnits, LAMBDA u : ~HasId(us, u.id)),
   relations |-> rs \o newRelations]

\* one GraphOperation applied by the switch of handleGraphOperations
ApplyOp(closure, st, op) ==
  CASE op.action = "ADD_UNIT" -> [st EXCEPT !.units = addUnit(@, op.data)]
    [] op.action = "DELETE_UNIT" -> removeUnit(closure, st.units, st.relations, op.id)
    [] op.action = "UPDATE_UNIT" ->
         [st EXCEPT !.units = [i \in DOMAIN @ |-> IF @[i].id = op.id THEN op.data @@ @[i] ELSE @[i]]]
    [] op.action = "ADD_RELATION" ->
         [st EXCEPT !.relations =
            addRelation(@, Relation(<<"o">> \o op.sourceId \o op.targetId,
                                    op.sourceId, op.targetId, CUTS))]
    [] op.action = "DELETE_RELATION" ->
         [st EXCEPT !.relations =
            SelectSeq(@, LAMBDA r : ~(r.sourceId = op.sourceId /\ r.targetId = op.targetId))]

\* ops.forEach(op => ...): every operation of the call sees the same closure
RECURSIVE ApplyOps(_, _, _, _)
ApplyOps(closure, st, ops, i) ==
  IF i > Len(ops) THEN st
  ELSE ApplyOps(closure, ApplyOp(closure, st, ops[i]), ops, i + 1)

handleGraphOperations(us, rs, ops) == ApplyOps(us, [units |-> us, relations |-> rs], ops, 1)

OpPool ==
  {[action |-> "ADD_UNIT", data |-> Unit(H1, ASH_PIT, id1)],
   [action |-> "DELETE_UNIT", id |-> H1],
   [action |-> "DELETE_UNIT", id |-> H2],
   [action |-> "UPDATE_UNIT", id |-> H1, data |-> [id |-> H2]],
   [action |-> "ADD_RELATION", sourceId |-> H1, targetId |-> H2],
   [action |-> "DELETE_RELATION", sourceId |-> H1, targetId |-> H2]}

SeqsUpTo(S, n) == UNION {[1..k -> S] : k \in 1..n}

InitApp ==
  /\ pc = "app"
  /\ units = <<>> /\ relations = <<>>
  /\ Idle

\* units and relations become st; the lists stay within the bounds
AppStep(st) ==
  /\ Len(st.units) <= MaxAppUnits /\ Len(st.relations) <= MaxAppRels
  /\ units' = st.units /\ relations' = st.relations
  /\ UNCHANGED <<pc, rawAdj, adj, nodes, links, layers, customOffsets, customPorts,
                 polylines, routes>>
  /\ UNCHANGED <<rankVars, canvasVars>>

\* UnitForm / ChatWidget: onAddUnit(unit)
AddUnit ==
  /\ pc = "app"
  /\ \E unit \in AppUnitPool : AppStep([units |-> addUnit(units, unit), relations |-> relations])

\* the delete buttons: onRemoveUnit(u.id), onDelete(unit.id)
RemoveUnit ==
  /\ pc = "app"
  /\ \E i \in DOMAIN units : AppStep(removeUnit(units, units, relations, units[i].id))

\* UnitForm.handleAddRelations / EditUnitModal: onAddRelation(relation)
AddRelation ==
  /\ pc = "app"
  /\ \E relation \in AppRelPool :
       AppStep([units |-> units, relations |-> addRelation(relations, relation)])

RemoveRelation ==
  /\ pc = "app"
  /\ \E i \in DOMAIN relations :
       AppStep([units |-> units, relations |-> removeRelation(relations, relations[i].id)])

HandleClearAll ==
  /\ pc = "app"
  /\ AppStep([units |-> <<>>, relations |-> <<>>])

\* EditUnitModal.handleSubmit: onSave(unit.id, formData), where formData is
\* the unit with another id (refused when that id exists) or with another
\* opening layer, as UnitForm.handleDrop changes it too
EditedUnits(unit) ==
  {[unit EXCEPT !.id = nid] : nid \in {H1, H2} \ (IF unit.type = LAYER THEN {H1, H2} ELSE {})}
    \cup {[unit EXCEPT !.openingLayerId = o] :
             o \in {NoId, id1} \ (IF unit.type = LAYER THEN {id1} ELSE {})}

HandleUpdateUnit ==
  /\ pc = "app"
  /\ \E i \in DOMAIN units :
       \E newUnit \in EditedUnits(units[i]) :
          /\ ~(newUnit.id # units[i].id /\ HasId(units, newUnit.id))
          /\ AppStep(handleUpdateUnit(units, relations, units[i].id, newUnit))

\* UnitForm.handleAiParse: onBulkImport(result.units, importedRelations)
HandleBulkImport ==
  /\ pc = "app"
  /\ \E newUnits \in SeqsUpTo(AppUnitPool, 2), newRelations \in {<<>>} \cup SeqsUpTo(AppRelPool, 1) :
       AppStep(handleBulkImport(units, relations, newUnits, newRelations))

\* ChatWidget: onApplyOperations(ops)
HandleGraphOperations ==
  /\ pc = "app"
  /\ \E ops \in SeqsUpTo(OpPool, MaxOps) : AppStep(handleGraphOperations(units, relations, ops))

NextApp ==
  \/ AddUnit \/ RemoveUnit \/ AddRelation \/ RemoveRelation \/ HandleClearAll
  \/ HandleUpdateUnit \/ HandleBulkImport \/ HandleGraphOperations

SpecApp == InitApp /\ [][NextApp]_vars

\* C14: after any sequence of addUnit, handleBulkImport, handleUpdateUnit,
\* removeUnit, handleClearAll and handleGraphOperations calls from the
\* empty state, the units list never holds two units with the same id.
C14_UnitIdsUnique ==
  pc = "app" => \A i, j \in DOMAIN units : units[i].id = units[j].id => i = j

-----------------------------------------------------------------------------
(* One link between two nodes that stand nearly above each other, next to  *)
(* a third node that takes no part in the link.                            *)

AlignedXs == {300 * PX, 410 * PX, 590 * PX, 700 * PX}

AlignedDxs == {0 - 30 * PX, 0, 30 * PX}

OtherXs == {100 * PX, 230 * PX, 320 * PX, 500 * PX, 680 * PX, 770 * PX, 900 * PX}

InitAligned ==
  /\ pc = "layout"
  /\ units = <<>> /\ relations = <<>> /\ rawAdj = NoMap /\ adj = NoMap /\ layers = 0
  /\ \E st \in {LAYER, ASH_PIT}, sx \in AlignedXs, dx \in AlignedDxs, ox \in OtherXs :
       nodes = <<RouteNode(H1, st, Pt(sx, 240 * PX)),
                 RouteNode(H2, ASH_PIT, Pt(sx + dx, 320 * PX)),
                 RouteNode(M1, ASH_PIT, Pt(ox, 80 * PX))>>
  /\ \E lt \in {CUTS, OVERLAYS} :
       links = <<[id |-> TheLink, source |-> H1, target |-> H2, type |-> lt]>>
  /\ customPorts = NoMap /\ customOffsets = NoMap
  /\ polylines = <<>> /\ routes = <<>>
  /\ CanvasUnset
  /\ memo = NoMap /\ visited = {} /\ stack = <<>> /\ todo = <<>> /\ retval = 0

SpecAligned == InitAligned /\ [][CalculateRoutes]_vars

\* a CUTS link without port override between horizontally aligned nodes
AlignedCuts(link) ==
  /\ link.id \notin DOMAIN customPorts
  /\ link.type = CUTS
  /\ Abs(NodeOf(link.target).x - NodeOf(link.source).x) < 40 * PX

\* the side the polyline of link i leaves by, and the side it enters by,
\* read from its first and last segment
LeavesBy(i) ==
  LET a == polylines[i][1]
      b == polylines[i][2]
  IN  IF b.x < a.x THEN "left" ELSE IF b.x > a.x THEN "right"
      ELSE IF b.y < a.y THEN "top" ELSE "bottom"

EntersBy(i) ==
  LET n == Len(polylines[i])
      a == polylines[i][n]
      b == polylines[i][n - 1]
  IN  IF b.x < a.x THEN "left" ELSE IF b.x > a.x THEN "right"
      ELSE IF b.y < a.y THEN "top" ELSE "bottom"

\* C21 (as stated): with no port override, a CUTS link whose source and
\* target are horizontally aligned (|dx| < 40) leaves and enters on the same
\* side, left when the source lies in the left half of the canvas and right
\* when it lies in the right half, wherever the other nodes are.
C21_SideOfCanvasHalf ==
  Routed =>
    \A i \in DOMAIN links :
       AlignedCuts(links[i]) =>
          /\ LeavesBy(i) = EntersBy(i)
          /\ NodeOf(links[i].source).x < canvasCenterX => LeavesBy(i) = "left"
          /\ NodeOf(links[i].source).x > canvasCenterX => LeavesBy(i) = "right"

\* C21 (amended): such a link leaves and enters on the same side, left when
\* the source's x is at most the mean x of all nodes passed to
\* calculateRoutes and right when it is greater, so the side depends on
\* where the other nodes stand.
C21_SideOfMeanX ==
  Routed =>
    \A i \in DOMAIN links :
       AlignedCuts(links[i]) =>
          /\ LeavesBy(i) = EntersBy(i)
          /\ LeavesBy(i) = (IF NodeOf(links[i].source).x * Len(nodes) <= SumX(nodes)
                            THEN "left" ELSE "right")

\* an aligned CUTS link whose source stands in the left half of the canvas
\* and right of the mean x: it leaves and enters on the right
C21_Witness ==
  /\ Routed
  /\ \E i \in DOMAIN links :
       /\ AlignedCuts(links[i])
       /\ NodeOf(links[i].source).x < canvasCenterX
       /\ LeavesBy(i) = "right" /\ EntersBy(i) = "right"

-----------------------------------------------------------------------------
(* Several crossings on one segment.  Link "l9" runs along x = 500 between *)
(* H1 (above) and H2 (below), downwards or upwards; up to MaxCross links   *)
(* run from M1 to M2 with their middle segment at a stored offset, so each *)
(* crosses x = 500 at the y of its offset.                                 *)

MaxCross == 3      \* most links crossing the vertical one

JumpYs == {200 * PX, 205 * PX, 212 * PX, 220 * PX, 260 * PX + 1}

LongLink == <<"l", "9">>

CrossLinkId(i) == <<"l", Digits[i + 1]>>

StackPorts == [sourceSide |-> "bottom", targetSide |-> "top"]

\* the dragged handle of the long link: far from every crossing, or 0.05
\* beyond the arc of the crossing at 260.05 (down) or at 205 (up)
LongOffset(down, far) ==
  IF far THEN (IF down THEN 120 * PX ELSE 480 * PX)
  ELSE (IF down THEN 260 * PX + 1 + BRIDGE_RADIUS + 1 ELSE 205 * PX - BRIDGE_RADIUS - 1)

RECURSIVE CrossLinks(_)
CrossLinks(k) ==
  IF k = 0 THEN <<>>
  ELSE Append(CrossLinks(k - 1),
              [id |-> CrossLinkId(k), source |-> M1, target |-> M2, type |-> OVERLAYS])

InitJumps ==
  /\ pc = "layout"
  /\ units = <<>> /\ relations = <<>> /\ rawAdj = NoMap /\ adj = NoMap /\ layers = 0
  /\ nodes = <<RouteNode(H1, ASH_PIT, Pt(500 * PX, 60 * PX)),
               RouteNode(H2, ASH_PIT, Pt(500 * PX, 540 * PX)),
               RouteNode(M1, ASH_PIT, Pt(300 * PX, 100 * PX)),
               RouteNode(M2, ASH_PIT, Pt(700 * PX, 500 * PX))>>
  /\ \E k \in 1..MaxCross, down \in BOOLEAN, far \in BOOLEAN :
       /\ links = Append(CrossLinks(k),
                         IF down
                         THEN [id |-> LongLink, source |-> H1, target |-> H2, type |-> CUTS]
                         ELSE [id |-> LongLink, source |-> H2, target |-> H1, type |-> CUTS])
       /\ customPorts = [id \in {CrossLinkId(i) : i \in 1..k} \cup {LongLink} |->
                           IF id = LongLink /\ ~down
                           THEN [sourceSide |-> "top", targetSide |-> "bottom"]
                           ELSE StackPorts]
       /\ \E ys \in [1..k -> JumpYs] :
            customOffsets = [id \in {CrossLinkId(i) : i \in 1..k} \cup {LongLink} |->
                               IF id = LongLink
                               THEN LongOffset(down, far)
                               ELSE ys[IndexOf(Digits, id[2]) - 1]]
  /\ polylines = <<>> /\ routes = <<>>
  /\ CanvasUnset
  /\ memo = NoMap /\ visited = {} /\ stack = <<>> /\ todo = <<>> /\ retval = 0

SpecJumps == InitJumps /\ [][CalculateRoutes]_vars

\* the points the drawing of segment i of link l passes, from its start
DrawnYs(l, i) ==
  LET cmds == SegmentCommands(polylines, l, i)
  IN  <<polylines[l][i].y>> \o [k \in DOMAIN cmds |-> EndPt(cmds[k]).y]

\* the arcs drawn on segment i of link l, each as <<first y, last y>>
ArcsOn(l, i) ==
  LET cmds == SegmentCommands(polylines, l, i)
      ys == DrawnYs(l, i)
  IN  {<<ys[k], ys[k + 1]>> : k \in {j \in DOMAIN cmds : cmds[j][1] = "A"}}

JumpsOn(l, i) == Range(segJumpsOf(polylines, l, i))

\* the jumps whose interval [c - 6, c + 6] lies within the arc
JumpsUnder(l, i, arc) ==
  {c \in JumpsOn(l, i) : Min(arc[1], arc[2]) <= c - BRIDGE_RADIUS
                            /\ c + BRIDGE_RADIUS <= Max(arc[1], arc[2])}

\* C22: on a segment with several crossings the drawing moves strictly
\* forward in the travel direction from the segment's start to its end, in
\* both directions, so the arcs are pairwise non-overlapping and ordered;
\* every jump interval [c - 6, c + 6] lies under one arc, and every arc
\* spans exactly a run of jumps each of which overlaps the next one.
C22_ArcsMergedAndOrdered ==
  Routed =>
    \A l \in DOMAIN links :
       /\ routes[l].path = PathOf(polylines, l)
       /\ \A i \in 1..(Len(polylines[l]) - 1) :
            JumpsOn(l, i) # {} =>
              LET ys == DrawnYs(l, i)
                  isDown == polylines[l][i + 1].y > polylines[l][i].y
              IN  /\ \A k \in 1..(Len(ys) - 1) :
                       IF isDown THEN ys[k] < ys[k + 1] ELSE ys[k] > ys[k + 1]
                  /\ IF isDown THEN ys[Len(ys)] <= polylines[l][i + 1].y
                               ELSE ys[Len(ys)] >= polylines[l][i + 1].y
                  /\ \A c \in JumpsOn(l, i) : \E arc \in ArcsOn(l, i) : c \in JumpsUnder(l, i, arc)
                  /\ \A arc \in ArcsOn(l, i) :
                       LET J == JumpsUnder(l, i, arc)
                       IN  /\ J # {}
                           /\ Min(arc[1], arc[2]) = MinOf(J) - BRIDGE_RADIUS
                           /\ Max(arc[1], arc[2]) = MaxOf(J) + BRIDGE_RADIUS
                           /\ \A c \in J \ {MaxOf(J)} :
                                \E d \in J : c < d /\ d - c < 2 * BRIDGE_RADIUS

\* an upward segment with three crossings: two arcs, one of them merged
C22_Witness ==
  /\ Routed
  /\ \E l \in DOMAIN links : \E i \in 1..(Len(polylines[l]) - 1) :
       /\ polylines[l][i + 1].y < polylines[l][i].y
       /\ Cardinality(JumpsOn(l, i)) = 3
       /\ Cardinality(ArcsOn(l, i)) = 2

-----------------------------------------------------------------------------
\* both adjacencies reach the same nodes from every node
SameReachability(a, b) ==
  /\ DOMAIN a = DOMAIN b
  /\ \A u \in DOMAIN a : Descendants(a, u) = Descendants(b, u)

\* C23 (as stated): for every input adjacency, cyclic ones and ones with
\* self-loops included, the target of every removed edge is still reachable
\* from its source in the returned adjacency, so the raw and the reduced
\* adjacency have the same reachability relation.
C23_ReachabilityKept ==
  pc = "reduced" =>
    /\ \A e \in EdgeSet(rawAdj) \ EdgeSet(adj) : e[2] \in Descendants(adj, e[1])
    /\ SameReachability(rawAdj, adj)

\* C23 (amended): the same for every acyclic input adjacency.
C23_ReachabilityKeptAcyclic ==
  (pc = "reduced" /\ Acyclic(rawAdj)) =>
    /\ \A e \in EdgeSet(rawAdj) \ EdgeSet(adj) : e[2] \in Descendants(adj, e[1])
    /\ SameReachability(rawAdj, adj)

\* an acyclic adjacency that lost two or more edges
C23_Witness ==
  /\ pc = "reduced" /\ Acyclic(rawAdj)
  /\ Cardinality(EdgeSet(rawAdj) \ EdgeSet(adj)) >= 2

-----------------------------------------------------------------------------
(* Layouts of layer chains with features between the layers.               *)

MaxTierRels == 2   \* longest relation list of the tier inputs

TierLayers == <<id1, id2, id3>>
TierFeatures == {<<>>, <<H1>>, <<H2>>, <<H1, H2>>, <<H2, H1>>}
TierOpenings == {NoId, id1, id2}
TierPairs == {<<H1, H2>>, <<H2, H1>>, <<H1, id2>>, <<H1, id3>>,
              <<id1, H1>>, <<id1, id3>>}

InitTiers ==
  /\ pc = "input"
  /\ \E k \in 1..Len(TierLayers) : \E fs \in TierFeatures :
       \E op \in [DOMAIN fs -> TierOpenings] :
         units = [i \in 1..k |-> Unit(TierLayers[i], LAYER, NoId)]
                 \o [i \in DOMAIN fs |-> Unit(fs[i], ASH_PIT, op[i])]
  /\ RelationsFrom(TierPairs, MaxTierRels)
  /\ Idle

SpecTiers == InitTiers /\ [][CalculateLayout]_vars

-----------------------------------------------------------------------------
\* C24: for every input whose raw adjacency is acyclic no two distinct nodes
\* get the same (x, y): a rank tier has at most one centred node, no two
\* LAYER nodes share a rank, and the nodes of a side column have pairwise
\* distinct x.
C24_DistinctPositions ==
  (Laid /\ Acyclic(rawAdj)) =>
    \A i, j \in DOMAIN nodes :
       i # j =>
         /\ <<nodes[i].x, nodes[i].y>> # <<nodes[j].x, nodes[j].y>>
         /\ (nodes[i].type = LAYER /\ nodes[j].type = LAYER) =>
               nodes[i].rank # nodes[j].rank
         /\ (nodes[i].rank = nodes[j].rank) =>
               \/ SideOfNode(nodes[i]) # "center"
               \/ SideOfNode(nodes[j]) # "center"

\* the same without the condition on the raw adjacency
C24_DistinctPositionsEveryInput ==
  Laid =>
    \A i, j \in DOMAIN nodes :
       i # j => <<nodes[i].x, nodes[i].y>> # <<nodes[j].x, nodes[j].y>>

\* a centred feature between two layers whose chain edge was reduced away,
\* and a feature at the side of a layer's tier
C24_Witness ==
  /\ Laid /\ Acyclic(rawAdj)
  /\ \E i, j, k \in DOMAIN nodes :
        /\ nodes[i].type # LAYER /\ SideOfNode(nodes[i]) = "center"
        /\ nodes[k].type = LAYER /\ nodes[k].rank > nodes[i].rank
        /\ nodes[j].type # LAYER /\ nodes[j].rank = nodes[k].rank

-----------------------------------------------------------------------------
\* the operations applied one call at a time, each call made against the
\* state the previous one produced
RECURSIVE OneAtATime(_, _, _)
OneAtATime(st, ops, i) ==
  IF i > Len(ops) THEN st
  ELSE OneAtATime(ApplyOp(st.units, st, ops[i]), ops, i + 1)

\* C25: one handleGraphOperations call with a list of operations leaves
\* units and relations as applying the same operations one at a time does;
\* the cascade decision of a DELETE_UNIT sees the earlier operations of the
\* same batch.
C25_BatchAsOneAtATime ==
  pc = "app" =>
    \A ops \in SeqsUpTo(OpPool, MaxOps) :
       handleGraphOperations(units, relations, ops)
         = OneAtATime([units |-> units, relations |-> relations], ops, 1)

-----------------------------------------------------------------------------
\* the ids the claim expects removeUnit(id) to remove from the list us; the
\* unit id is the first one of the list with that id, as units.find gives it
ExpectedGone(us, id) ==
  {id} \cup
  {L \in {FindUnit(us, d).openingLayerId : d \in {id} \cap {us[k].id : k \in DOMAIN us}} :
     /\ L # NoId
     /\ \E j \in DOMAIN us : us[j].id = L /\ us[j].type = LAYER
     /\ ~\E j \in DOMAIN us : us[j].id # id /\ us[j].openingLayerId = L}

Kept(s, keep(_)) == SelectSeq(s, keep)

\* C28: removeUnit(id) removes exactly the unit id and, when id has an
\* openingLayerId L naming an existing LAYER unit that no other unit is dug
\* into, the unit L; it removes exactly the relations with a removed id as
\* sourceId or targetId; everything else is unchanged, so no relation
\* references a removed unit afterwards.
C28_RemoveUnitFrame ==
  pc = "app" =>
    \A id \in AppIds :
       LET out == removeUnit(units, units, relations, id)
           gone == ExpectedGone(units, id)
       IN  /\ out.units = Kept(units, LAMBDA u : u.id \notin gone)
           /\ out.relations =
                Kept(relations, LAMBDA r : r.sourceId \notin gone /\ r.targetId \notin gone)
           /\ \A i \in DOMAIN out.relations :
                 /\ out.relations[i].sourceId \notin gone
                 /\ out.relations[i].targetId \notin gone

\* a feature alone in its layer whose removal takes the layer and a
\* relation with it and leaves another unit behind
C28_Witness ==
  /\ pc = "app"
  /\ \E i \in DOMAIN units :
       LET out == removeUnit(units, units, relations, units[i].id)
       IN  /\ Cardinality(ExpectedGone(units, units[i].id)) = 2
           /\ Len(out.units) = Len(units) - 2 /\ out.units # <<>>
           /\ Len(out.relations) < Len(relations)

-----------------------------------------------------------------------------
(* Layouts of inputs whose relations carry both relation types.            *)

MaxLinkRels == 2   \* longest relation list of the typed inputs

LinkPairs == {<<H1, H2>>, <<H2, H1>>, <<id1, H1>>, <<id1, H2>>, <<id1, id2>>}

InitLinks ==
  /\ pc = "input"
  /\ \E o1, o2 \in {NoId, id1} :
       units = <<Unit(id1, LAYER, NoId), Unit(H1, ASH_PIT, o1),
                 Unit(id2, LAYER, NoId), Unit(H2, ASH_PIT, o2)>>
  /\ \E k \in 0..MaxLinkRels :
       \E e \in [1..k -> LinkPairs \X {CUTS, OVERLAYS}] :
         relations = [i \in 1..k |-> Relation(RelId(i), e[i][1][1], e[i][1][2], e[i][2])]
  /\ Idle

SpecLinks == InitLinks /\ [][CalculateLayout]_vars

\* the relations of the input with the link's source and target
RelationsOf(link) ==
  {i \in DOMAIN relations :
     relations[i].sourceId = link.source /\ relations[i].targetId = link.target}

\* C29: the links are exactly the edges of the reduced adjacency, one link
\* per edge; a link is OVERLAYS when its source is a LAYER and CUTS
\* otherwise, whatever the type of the relation behind it; its id is the id
\* of the first relation with its source and target, or
\* "<sourceId>-<targetId>" when there is none.
C29_LinksOfReducedAdjacency ==
  Laid =>
    /\ LinkEdges = EdgeSet(adj)
    /\ Len(links) = Cardinality(EdgeSet(adj))
    /\ \A i \in DOMAIN links :
         /\ links[i].type =
              IF NodeOf(links[i].source).type = LAYER THEN OVERLAYS ELSE CUTS
         /\ RelationsOf(links[i]) = {} =>
              links[i].id = links[i].source \o <<"-">> \o links[i].target
         /\ RelationsOf(links[i]) # {} =>
              \E r \in RelationsOf(links[i]) :
                 /\ links[i].id = relations[r].id
                 /\ \A q \in RelationsOf(links[i]) : r <= q

\* a CUTS link from an OVERLAYS relation, an OVERLAYS link from a CUTS
\* relation and a link without a relation, in one layout
C29_Witness ==
  /\ Laid
  /\ \E i, j, k \in DOMAIN links :
        /\ links[i].type = CUTS
        /\ \E r \in RelationsOf(links[i]) : relations[r].type = OVERLAYS
        /\ links[j].type = OVERLAYS
        /\ \E r \in RelationsOf(links[j]) : relations[r].type = CUTS
        /\ RelationsOf(links[k]) = {}

\* a link whose source and target are named by two relations
C29_WitnessFirstRelation ==
  Laid /\ \E i \in DOMAIN links : Cardinality(RelationsOf(links[i])) = 2

-----------------------------------------------------------------------------
\* jump c of segment i of link l comes from a horizontal segment of another
\* link, more than BRIDGE_RADIUS away from both ends of both segments
PaddedCrossing(l, i, c) ==
  \E m \in DOMAIN polylines : \E j \in 1..(Len(polylines[m]) - 1) :
     /\ m # l
     /\ IsHSeg(polylines[m], j) /\ polylines[m][j].y = c
     /\ Min(polylines[m][j].x, polylines[m][j + 1].x) + BRIDGE_RADIUS < polylines[l][i].x
     /\ polylines[l][i].x < Max(polylines[m][j].x, polylines[m][j + 1].x) - BRIDGE_RADIUS
     /\ Min(polylines[l][i].y, polylines[l][i + 1].y) + BRIDGE_RADIUS < c
     /\ c < Max(polylines[l][i].y, polylines[l][i + 1].y) - BRIDGE_RADIUS

\* the jumps of segment i of link l are padded crossings of a vertical
\* segment, and every arc drawn on it lies strictly inside the segment
JumpsWellInside(l, i) ==
  /\ IsVertSeg(polylines[l], i)
  /\ \A c \in JumpsOn(l, i) : PaddedCrossing(l, i, c)
  /\ \A arc \in ArcsOn(l, i) :
       /\ Min(polylines[l][i].y, polylines[l][i + 1].y) < Min(arc[1], arc[2])
       /\ Max(arc[1], arc[2]) < Max(polylines[l][i].y, polylines[l][i + 1].y)

LastCommand(l, i) == SegmentCommands(polylines, l, i)[Len(SegmentCommands(polylines, l, i))]

\* the distance from the end of the last arc of segment i to the segment's end
LeftAfterArcs(l, i) ==
  LET ys == {arc[2] : arc \in ArcsOn(l, i)}
      isDown == polylines[l][i + 1].y > polylines[l][i].y
  IN  Abs(polylines[l][i + 1].y - (IF isDown THEN MaxOf(ys) ELSE MinOf(ys)))

\* C30 (as stated): a jump is recorded only on the vertical segment of a
\* crossing with a segment of another link whose crossing point is more
\* than BRIDGE_RADIUS away from both ends of both segments; so every arc
\* lies strictly inside its segment and after the last arc the path goes on
\* with a line to the segment's end point.
C30_LineAfterLastArc ==
  Routed =>
    \A l \in DOMAIN links : \A i \in 1..(Len(polylines[l]) - 1) :
       JumpsOn(l, i) # {} =>
         /\ JumpsWellInside(l, i)
         /\ LastCommand(l, i) = <<"L", polylines[l][i + 1].x, polylines[l][i + 1].y>>

\* C30 (amended): the same, the line after the last arc being drawn when
\* that arc ends more than 0.1 before the segment's end point; an arc that
\* ends within 0.1 of it is the last command of the segment.
C30_LineAfterLastArcUnlessClose ==
  Routed =>
    \A l \in DOMAIN links : \A i \in 1..(Len(polylines[l]) - 1) :
       JumpsOn(l, i) # {} =>
         /\ JumpsWellInside(l, i)
         /\ LeftAfterArcs(l, i) > Tolerance =>
              LastCommand(l, i) = <<"L", polylines[l][i + 1].x, polylines[l][i + 1].y>>
         /\ LeftAfterArcs(l, i) <= Tolerance => LastCommand(l, i)[1] = "A"

\* a segment whose drawing ends with an arc, in a layout where another
\* crossing lies too close to a segment end to be given a jump
C30_Witness ==
  /\ Routed
  /\ \E l \in DOMAIN links : \E i \in 1..(Len(polylines[l]) - 1) :
        JumpsOn(l, i) # {} /\ LastCommand(l, i)[1] = "A"
  /\ \E l, m \in DOMAIN links :
        \E i \in 1..(Len(polylines[l]) - 1), j \in 1..(Len(polylines[m]) - 1) :
           /\ l # m /\ CrossInside(polylines[m], j, polylines[l], i)
           /\ polylines[m][j].y \notin JumpsOn(l, i)

-----------------------------------------------------------------------------
(* MatrixCanvas: the layout mode, the three override maps and the tools.   *)
(* customOffsets is linkSegmentOffsets and customPorts is linkPorts, the   *)
(* maps handed to calculateRoutes.  A handler works on the pending state   *)
(* `st` with functional updaters and reads everything else from the       *)
(* closure `c` of the render that created it.  The handlers bound by the   *)
(* render and by the drag effects come from the latest render; the keydown *)
(* listener is replaced only when a dependency of its effect changes.      *)

MaxCanvasUnits == 3   \* units on the canvas; the node tool stops there

NoSelection == <<>>   \* selectedId === null

Tools == {"select", "node", "edge", "eraser"}

DragPoints == {Pt(200 * PX, 300 * PX)}    \* event.x, event.y
ClickPoint == Pt(120 * PX, 520 * PX)      \* d3.pointer(e, g.node())
HandleOffsets == {150 * PX}
PortSides == {"left"}

\* useMemo of lines 59-80: the auto layout with the manual positions over it
MergedNodes(auto, mp) ==
  [i \in DOMAIN auto |->
     IF auto[i].id \in DOMAIN mp
     THEN [auto[i] EXCEPT !.x = mp[auto[i].id].x, !.y = mp[auto[i].id].y]
     ELSE auto[i]]

\* the pending state of the component and the props a handler was created with
CanvasNow ==
  [layoutMode |-> layoutMode, manualPositions |-> manualPositions,
   linkSegmentOffsets |-> customOffsets, linkPorts |-> customPorts,
   activeTool |-> activeTool, selectedId |-> selectedId, units |-> units]

LatestRender == [layoutMode |-> layoutMode, nodes |-> nodes]

switchToManual(c, st) ==
  IF c.layoutMode = "auto"
  THEN [st EXCEPT !.manualPositions =
                     [id \in {c.nodes[i].id : i \in DOMAIN c.nodes} |->
                        Pt(NodeById(c.nodes, id).x, NodeById(c.nodes, id).y)],
                  !.layoutMode = "manual"]
  ELSE st

handleToolChange(c, st, tool) ==
  [(IF tool # "select" THEN switchToManual(c, st) ELSE st)
     EXCEPT !.activeTool = tool, !.selectedId = NoSelection]

\* which is "sourceSide" or "targetSide"
updateLinkPort(c, st, linkId, which, side) ==
  LET s1 == switchToManual(c, st)
      current == IF linkId \in DOMAIN s1.linkPorts THEN s1.linkPorts[linkId] ELSE NoPorts
  IN  [s1 EXCEPT !.linkPorts = (linkId :> [current EXCEPT ![which] = side]) @@ @]

\* let counter = 1; while (units.some(u => u.id === newId)) counter++
newId(us) ==
  LET free == {n \in 1..(Len(us) + 1) : ~HasId(us, <<"H", Digits[n + 1]>>)}
  IN  <<"H", Digits[(CHOOSE n \in free : \A m \in free : n <= m) + 1]>>

\* the container's onClick; the props and the tool are those of the render
\* that was on screen when the click arrived
handleCanvasClick(st, onSvg) ==
  IF activeTool = "select"
  THEN (IF onSvg THEN [st EXCEPT !.selectedId = NoSelection] ELSE st)
  ELSE IF activeTool = "node"
  THEN [st EXCEPT !.manualPositions = (newId(units) :> ClickPoint) @@ @,
                  !.units = addUnit(@, Unit(newId(units), ASH_PIT, NoId)),
                  !.selectedId = newId(units)]
  ELSE st

\* what the registered keydown listener closes over, with the two
\* dependencies of its effect that change here
KeyDownOf(mode, ns, sel, us) ==
  [layoutMode |-> mode, nodes |-> ns, selectedId |-> sel, units |-> us]

\* an event handler returns with the state updates `st` queued, and React
\* renders next
Handle(st) ==
  /\ pc = "canvas"
  /\ Len(st.units) <= MaxCanvasUnits
  /\ units' = st.units
  /\ layoutMode' = st.layoutMode
  /\ manualPositions' = st.manualPositions
  /\ customOffsets' = st.linkSegmentOffsets
  /\ customPorts' = st.linkPorts
  /\ activeTool' = st.activeTool
  /\ selectedId' = st.selectedId
  /\ pc' = "render"
  /\ UNCHANGED <<relations, rawAdj, adj, nodes, links, layers, polylines, routes,
                 handleKeyDown, rankVars>>

\* the render: the layout of the unit list with the manual positions merged
\* over it, and the keydown effect run again when it has no listener yet or
\* one of its dependencies changed.  The routes are a function of nodes,
\* links and the two maps (line 84) and no handler reads more of them than
\* the route type of a link, so they are not kept here.
Render ==
  /\ pc = "render"
  /\ LET out == calculateLayout(units, relations)
     IN  /\ rawAdj' = out.rawAdj /\ adj' = out.adj /\ layers' = out.layers
         /\ nodes' = MergedNodes(out.nodes, manualPositions)
         /\ links' = out.links
  /\ handleKeyDown' =
       IF handleKeyDown = <<>>
       THEN KeyDownOf(layoutMode, nodes', selectedId, units)
       ELSE IF handleKeyDown.selectedId # selectedId \/ handleKeyDown.units # units
       THEN KeyDownOf(layoutMode, nodes', selectedId, units)
       ELSE handleKeyDown
  /\ pc' = "canvas"
  /\ UNCHANGED <<units, relations, layoutMode, manualPositions, customOffsets,
                 customPorts, activeTool, selectedId, polylines, routes, rankVars>>

\* App is about to render a canvas for a layer and a feature dug into it
InitCanvas ==
  /\ pc = "render"
  /\ units = <<Unit(id1, LAYER, NoId), Unit(H1, ASH_PIT, id1)>>
  /\ relations = <<>>
  /\ Idle

\* a toolbar button: onClick={() => handleToolChange(tool)}, and the click
\* goes on to the container's onClick
ClickTool ==
  /\ pc = "canvas"
  /\ \E tool \in Tools :
       Handle(handleCanvasClick(handleToolChange(LatestRender, CanvasNow, tool), FALSE))

\* the toolbar button onClick={switchToManual}
ClickManual ==
  /\ pc = "canvas"
  /\ Handle(handleCanvasClick(switchToManual(LatestRender, CanvasNow), FALSE))

\* the reset button (lines 585-593), and the click goes on to the container
ClickReset ==
  /\ pc = "canvas"
  /\ Handle(handleCanvasClick([CanvasNow EXCEPT !.layoutMode = "auto",
                                                !.manualPositions = NoMap,
                                                !.linkSegmentOffsets = NoMap,
                                                !.linkPorts = NoMap,
                                                !.activeTool = "select"], FALSE))

\* the V / B / L / D shortcuts of the registered keydown listener
KeyTool ==
  /\ pc = "canvas"
  /\ \E tool \in Tools : Handle(handleToolChange(handleKeyDown, CanvasNow, tool))

\* the node drag: "start", then one "drag" event
DragNodeTo(id, p) ==
  /\ activeTool = "select"
  /\ Handle([switchToManual(LatestRender, CanvasNow)
               EXCEPT !.selectedId = id, !.manualPositions = (id :> p) @@ @])

DragNode == \E i \in DOMAIN nodes : \E p \in DragPoints : DragNodeTo(nodes[i].id, p)

\* the link handle drag: "start", then one "drag" event
DragLinkHandle ==
  /\ pc = "canvas" /\ layoutMode = "manual" /\ activeTool = "select"
  /\ \E i \in DOMAIN links : \E val \in HandleOffsets :
       /\ RouteOf(nodes, links[i], customOffsets, customPorts).routeType
            \in {"VerticalStack", "SideBracket"}
       /\ Handle([switchToManual(LatestRender, CanvasNow)
                    EXCEPT !.linkSegmentOffsets = (links[i].id :> val) @@ @])

\* handleLinkClick with the select tool
ClickLink ==
  /\ activeTool = "select"
  /\ \E i \in DOMAIN links : Handle([CanvasNow EXCEPT !.selectedId = links[i].id])

\* a port control of the selected link
ClickPort ==
  /\ activeTool = "select"
  /\ \E i \in DOMAIN links :
       /\ links[i].id = selectedId
       /\ \E which \in {"sourceSide", "targetSide"}, side \in PortSides :
            Handle(updateLinkPort(LatestRender, CanvasNow, selectedId, which, side))

\* a click on the empty canvas
ClickCanvas ==
  /\ pc = "canvas"
  /\ Handle(handleCanvasClick(CanvasNow, TRUE))

\* App renders again (editingUnit changes) and hands the canvas new
\* onDeleteUnit / onDeleteRelation functions: the keydown effect runs again
AppRender ==
  /\ pc = "canvas"
  /\ handleKeyDown' = KeyDownOf(layoutMode, nodes, selectedId, units)
  /\ UNCHANGED <<pc, units, relations, rawAdj, adj, nodes, links, layers, polylines,
                 routes, layoutMode, manualPositions, customOffsets, customPorts,
                 activeTool, selectedId, rankVars>>

NextCanvas ==
  \/ Render \/ ClickTool \/ ClickManual \/ ClickReset \/ KeyTool \/ DragNode
  \/ DragLinkHandle \/ ClickLink \/ ClickPort \/ ClickCanvas \/ AppRender

SpecCanvas == InitCanvas /\ [][NextCanvas]_vars

\* the manual position of the node came from a drag of that node
Dragged(id) == id \in DOMAIN manualPositions /\ manualPositions[id] \in DragPoints

\* C26: once a node has a manual position from a drag, only a drag of that
\* node or the reset button changes it: no tool change by toolbar button or
\* keyboard shortcut, no port update and no other switchToManual call does.
C26_DraggedPositionKept ==
  [][\A id \in DOMAIN manualPositions :
        Dragged(id) =>
          \/ id \in DOMAIN manualPositions' /\ manualPositions'[id] = manualPositions[id]
          \/ ClickReset
          \/ \E p \in DragPoints : DragNodeTo(id, p)]_vars

\* C27: in every reachable state layoutMode = 'auto' implies that
\* manualPositions, linkSegmentOffsets and linkPorts are empty.
C27_AutoHasNoOverrides ==
  (pc = "canvas" /\ layoutMode = "auto") =>
     manualPositions = NoMap /\ customOffsets = NoMap /\ customPorts = NoMap

====
